---- MODULE Spec2Model ----
(***************************************************************************)
(* A model of the podcasts package: the Podcast aggregate, the Feed and    *)
(* its Channel, the functional options applied by SetOptions, the value    *)
(* formatters and the serialization strategies.                            *)
(*                                                                         *)
(* Texts are sequences of atoms.  An atom is either one of the five        *)
(* characters XML escapes, a control character, or a run of ordinary       *)
(* characters.  A Go pointer is a sequence of length at most one: <<>> is  *)
(* nil and <<v>> points to v.  An error is a string, "nil" for no error.   *)
(***************************************************************************)
EXTENDS Integers, Sequences, FiniteSets, TLC

VARIABLES podcast, feed, pool, ret, direct, arrays, slices, history,
          threads, buffers

vars ==
    <<podcast, feed, pool, ret, direct, arrays, slices, history, threads,
      buffers>>

(***************************************************************************)
(* Bounds.                                                                 *)
(***************************************************************************)
MaxOpts == 2
MaxDirect == 1

(***************************************************************************)
(* Program constants.                                                      *)
(***************************************************************************)
itunesXMLNS == <<"http://www.itunes.com/dtds/podcast-1.0.dtd">>
contentXMLNS == <<"http://purl.org/rss/1.0/modules/content/">>
rssVersion == <<"2.0">>
ValueYes == <<"yes">>

NoErr == "nil"
ErrInvalidURL == "ErrInvalidURL"
ErrInvalidImage == "ErrInvalidImage"

Nil == <<>>
Ptr(v) == <<v>>
Deref(p) == p[1]

(***************************************************************************)
(* Generic sequence helpers.                                               *)
(***************************************************************************)
SeqsUpTo(S, n) == UNION {[1..k -> S] : k \in 0..n}

Range(s) == {s[i] : i \in 1..Len(s)}

IsPrefix(s, t) == Len(s) <= Len(t) /\ \A i \in 1..Len(s) : s[i] = t[i]

(***************************************************************************)
(* URL parsing, as net/url's Parse does it on the atoms of a URL: "a" is a *)
(* letter, ":" and "/" are themselves, "^" is a control character and " "  *)
(* a space.                                                                *)
(***************************************************************************)
IsLetter(c) == c = "a"
IsCtl(c) == c = "^"

\* position of the first atom that is not a letter, Len+1 when all are
RECURSIVE FirstNonLetter(_, _)
FirstNonLetter(u, i) ==
    IF i > Len(u) THEN i
    ELSE IF IsLetter(u[i]) THEN FirstNonLetter(u, i + 1) ELSE i

\* position of the first "/" at or after i, Len+1 when there is none
RECURSIVE FirstSlash(_, _)
FirstSlash(u, i) ==
    IF i > Len(u) THEN i
    ELSE IF u[i] = "/" THEN i ELSE FirstSlash(u, i + 1)

\* what Parse returns: ok is FALSE when it returns an error
URLError == [ok |-> FALSE, scheme |-> <<>>, host |-> <<>>]

\* the host of rest, the part of a URL after its scheme: what follows "//"
\* up to the next "/"
HostOf(rest) ==
    IF Len(rest) >= 2 /\ rest[1] = "/" /\ rest[2] = "/"
    THEN SubSeq(rest, 3, FirstSlash(rest, 3) - 1)
    ELSE <<>>

\* Parse once scheme, rest and host are split: a colon in the first path
\* segment of a URL without scheme and a space in the host are errors
ParseRest(scheme, rest, host) ==
    IF scheme = <<>> /\ \E i \in 1..(FirstSlash(rest, 1) - 1) : rest[i] = ":"
      THEN URLError
    ELSE IF \E i \in 1..Len(host) : host[i] = " "
      THEN URLError
    ELSE [ok |-> TRUE, scheme |-> scheme, host |-> host]

\* Parse of u whose leading letters end before position k: a control
\* character and a leading colon are errors; letters then a colon are a scheme
ParseScheme(u, k) ==
    IF \E i \in 1..Len(u) : IsCtl(u[i])
      THEN URLError
    ELSE IF k <= Len(u) /\ u[k] = ":" /\ k = 1
      THEN URLError
    ELSE IF k <= Len(u) /\ u[k] = ":"
      THEN ParseRest(SubSeq(u, 1, k - 1), SubSeq(u, k + 1, Len(u)),
                     HostOf(SubSeq(u, k + 1, Len(u))))
    ELSE ParseRest(<<>>, u, HostOf(u))

ParseURL(u) == ParseScheme(u, FirstNonLetter(u, 1))

\* a validation that asks for a scheme only
isAbsoluteURLSchemeOnly(u) ==
    \E p \in {ParseURL(u)} : p.ok /\ p.scheme # <<>>

\* an absolute URL parses and has both a scheme and a host
isAbsoluteURL(u) ==
    \E p \in {ParseURL(u)} : p.ok /\ p.scheme # <<>> /\ p.host # <<>>

(***************************************************************************)
(* The entity model.                                                       *)
(***************************************************************************)
CDATAText(v) == [Value |-> v]
ItunesOwner(name, email) == [Name |-> name, Email |-> email]
ItunesImage(href) == [Href |-> href]
ItunesCategory(text, sub) == [Text |-> text, Categories |-> sub]
Enclosure(url, length, type) == [URL |-> url, Length |-> length, Type |-> type]

\* a time.Duration, split as Seconds() splits it: d / Second and d % Second
NewDuration(sec, nsec) == Ptr([sec |-> sec, nsec |-> nsec])

\* a time.Time, broken down in its own zone; offset in minutes east of UTC
NewPubDate(t) == Ptr(t)

Item(title, guid, pubDate) ==
    [Title |-> title, GUID |-> guid, PubDate |-> pubDate,
     Description |-> Nil, ContentEncoded |-> Nil, Author |-> <<>>,
     Block |-> <<>>, Duration |-> Nil, Explicit |-> <<>>,
     ClosedCaptioned |-> <<>>, Order |-> 0, Subtitle |-> <<>>,
     Summary |-> Nil, Enclosure |-> Nil, Image |-> Nil]

Channel(title, description, link, copyright, language, items) ==
    [Title |-> title, Link |-> link, Copyright |-> copyright,
     Language |-> language, Description |-> description,
     Author |-> <<>>, Block |-> <<>>, Explicit |-> <<>>, Complete |-> <<>>,
     NewFeedURL |-> <<>>, Subtitle |-> <<>>, Summary |-> Nil, Owner |-> Nil,
     Image |-> Nil, Items |-> items, Categories |-> <<>>]

ChannelFields ==
    {"Title", "Link", "Copyright", "Language", "Description", "Author",
     "Block", "Explicit", "Complete", "NewFeedURL", "Subtitle", "Summary",
     "Owner", "Image", "Items", "Categories"}

Feed(itunes, content, version, channel) ==
    [ItunesXMLNS |-> itunes, ContentXMLNS |-> content, Version |-> version,
     Channel |-> channel]

Podcast(title, description, link, language, copyright, items) ==
    [Title |-> title, Description |-> description, Link |-> link,
     Language |-> language, Copyright |-> copyright, items |-> items]

\* f with field fld of its Channel set to v
WithChannel(f, fld, v) ==
    [f EXCEPT !.Channel = Ptr([Deref(f.Channel) EXCEPT ![fld] = v])]

(***************************************************************************)
(* The built-in options.  Each takes the Feed it is applied to and returns *)
(* the error and the Feed as the option leaves it.                         *)
(***************************************************************************)
Result(err, f) == [err |-> err, feed |-> f]

Author(name, f) == Result(NoErr, WithChannel(f, "Author", name))

\* a Block that writes the neighbouring flag
BlockSetsExplicit(f) == Result(NoErr, WithChannel(f, "Explicit", ValueYes))

Block(f) == Result(NoErr, WithChannel(f, "Block", ValueYes))

Explicit(f) == Result(NoErr, WithChannel(f, "Explicit", ValueYes))

Complete(f) == Result(NoErr, WithChannel(f, "Complete", ValueYes))

NewFeedURL(newURL, f) ==
    IF ~isAbsoluteURL(newURL) THEN Result(ErrInvalidURL, f)
    ELSE Result(NoErr, WithChannel(f, "NewFeedURL", newURL))

Subtitle(subtitle, f) == Result(NoErr, WithChannel(f, "Subtitle", subtitle))

Summary(summary, f) ==
    Result(NoErr, WithChannel(f, "Summary", Ptr(CDATAText(summary))))

Owner(name, email, f) ==
    Result(NoErr, WithChannel(f, "Owner", Ptr(ItunesOwner(name, email))))

Image(href, f) ==
    IF ~isAbsoluteURL(href) THEN Result(ErrInvalidImage, f)
    ELSE Result(NoErr, WithChannel(f, "Image", Ptr(ItunesImage(href))))

\* the caller's own option of the tests: fails and touches nothing
errorOption(f) == Result(ErrInvalidURL, f)

\* an option value: the option's name and the arguments it was built with
Opt(name, a, b) == [name |-> name, a |-> a, b |-> b]

\* the call opt(f)
Apply(opt, f) ==
    CASE opt.name = "Author" -> Author(opt.a, f)
      [] opt.name = "Block" -> Block(f)
      [] opt.name = "Explicit" -> Explicit(f)
      [] opt.name = "Complete" -> Complete(f)
      [] opt.name = "NewFeedURL" -> NewFeedURL(opt.a, f)
      [] opt.name = "Subtitle" -> Subtitle(opt.a, f)
      [] opt.name = "Summary" -> Summary(opt.a, f)
      [] opt.name = "Owner" -> Owner(opt.a, opt.b, f)
      [] opt.name = "Image" -> Image(opt.a, f)
      [] opt.name = "errorOption" -> errorOption(f)

(***************************************************************************)
(* Feed.SetOptions: the loop over the options, from option i on.  log      *)
(* lists the options invoked so far with the error each returned.          *)
(***************************************************************************)
RECURSIVE SetOptionsLoop(_, _, _, _)
RECURSIVE SetOptionsNext(_, _, _, _)

\* the loop body once option i has returned r
SetOptionsNext(r, options, i, log) ==
    IF r.err # NoErr
      THEN [err |-> r.err, feed |-> r.feed,
            log |-> Append(log, [opt |-> options[i], err |-> r.err])]
    ELSE SetOptionsLoop(r.feed, options, i + 1,
                        Append(log, [opt |-> options[i], err |-> r.err]))

SetOptionsLoop(f, options, i, log) ==
    IF i > Len(options) THEN [err |-> NoErr, feed |-> f, log |-> log]
    ELSE SetOptionsNext(Apply(options[i], f), options, i, log)

RECURSIVE SetOptionsKeepGoingLoop(_, _, _, _, _)
RECURSIVE SetOptionsKeepGoingNext(_, _, _, _, _)

SetOptionsKeepGoingNext(r, options, i, log, err) ==
    SetOptionsKeepGoingLoop(r.feed, options, i + 1,
        Append(log, [opt |-> options[i], err |-> r.err]),
        IF r.err # NoErr THEN r.err ELSE err)

SetOptionsKeepGoingLoop(f, options, i, log, err) ==
    IF i > Len(options) THEN [err |-> err, feed |-> f, log |-> log]
    ELSE SetOptionsKeepGoingNext(Apply(options[i], f), options, i, log, err)

\* a loop that keeps going after a failing option and returns the last error
SetOptionsKeepGoing(f, options) ==
    SetOptionsKeepGoingLoop(f, options, 1, <<>>, NoErr)

SetOptions(f, options) == SetOptionsLoop(f, options, 1, <<>>)

(***************************************************************************)
(* Podcast.Feed: a fresh Feed over the Podcast's fields and items, then    *)
(* SetOptions; the Feed is returned together with the error.               *)
(***************************************************************************)
\* a Feed stamped with the two namespaces the other way round
NewFeedContentFirst(p) ==
    Feed(contentXMLNS, itunesXMLNS, rssVersion,
         Ptr(Channel(p.Title, p.Description, p.Link, p.Copyright, p.Language,
                     p.items)))

\* the Feed as Podcast.Feed builds it before the options
NewFeed(p) ==
    Feed(itunesXMLNS, contentXMLNS, rssVersion,
         Ptr(Channel(p.Title, p.Description, p.Link, p.Copyright, p.Language,
                     p.items)))

\* a Podcast that fills the one Channel it keeps for every Feed
sharesChannelKept(p) == TRUE

\* whether the Feed Podcast.Feed returns points at the Channel of a Feed it
\* returned before: Channel: &Channel{...} is a new object on every call
sharesChannel(p) == FALSE

\* what Podcast.Feed returns when SetOptions returned r
FeedReturn(r) == [feed |-> Ptr(r.feed), err |-> r.err, log |-> r.log]

FeedReturnNoError(r) == [feed |-> Ptr(r.feed), err |-> NoErr, log |-> r.log]

\* a Feed that applies the options and drops their error
PodcastFeedDropsError(p, options) ==
    FeedReturnNoError(SetOptions(NewFeed(p), options))

PodcastFeed(p, options) == FeedReturn(SetOptions(NewFeed(p), options))

(***************************************************************************)
(* Slices.  The heap of backing arrays is a sequence, an array being named *)
(* by its position in it; an array is the sequence of its cells, as many   *)
(* as its capacity, and a cell is a pointer to an Item.  A slice is the    *)
(* array it points into (0 for none), a length and a capacity.             *)
(***************************************************************************)
SliceOf(arr, len, cap) == [arr |-> arr, len |-> len, cap |-> cap]

NilSlice == SliceOf(0, 0, 0)

\* the cells a slice shows
Elems(h, s) == [i \in 1..s.len |-> h[s.arr][i]]

\* the Items a slice of non-nil cells shows; a nil cell shows as NilItem
NilItem == [nil |-> TRUE]

ItemsOf(h, s) ==
    [i \in 1..s.len |->
        IF h[s.arr][i] = Nil THEN NilItem ELSE Deref(h[s.arr][i])]

\* make([]*Item, len, cap): a new array of nil cells
make(h, len, cap) ==
    [arrays |-> Append(h, [i \in 1..cap |-> Nil]),
     slice |-> SliceOf(Len(h) + 1, len, cap)]

\* copy(dst, src) on the heap h
copy(h, dst, src) ==
    IF dst.len = 0 \/ src.len = 0 THEN h
    ELSE [h EXCEPT ![dst.arr] =
             [i \in 1..Len(h[dst.arr]) |->
                 IF i <= dst.len /\ i <= src.len THEN h[src.arr][i]
                 ELSE h[dst.arr][i]]]

\* s[i] = v
store(h, s, i, v) == [h EXCEPT ![s.arr][i] = v]

\* an append within the capacity that puts the new cell first
appendInPlaceAtFront(h, s, v) ==
    [arrays |-> [h EXCEPT ![s.arr] =
                    [i \in 1..s.cap |->
                        IF i = 1 THEN v
                        ELSE IF i <= s.len + 1 THEN h[s.arr][i - 1]
                        ELSE h[s.arr][i]]],
     slice |-> SliceOf(s.arr, s.len + 1, s.cap)]

\* append within the capacity: the cell after the last one is written
appendInPlace(h, s, v) ==
    [arrays |-> [h EXCEPT ![s.arr][s.len + 1] = v],
     slice |-> SliceOf(s.arr, s.len + 1, s.cap)]

\* append beyond the capacity: the cells move to the new array m made
appendGrown(m, s, v) ==
    appendInPlace(copy(m.arrays, SliceOf(m.slice.arr, s.len, m.slice.cap), s),
                  SliceOf(m.slice.arr, s.len, m.slice.cap), v)

\* append(s, v); newcap is the capacity of the array append allocates when
\* s is full, which the language leaves to the implementation
append(h, s, v, newcap) ==
    IF s.len < s.cap THEN appendInPlace(h, s, v)
    ELSE appendGrown(make(h, s.len, newcap), s, v)

\* the capacities append may give the array it allocates for a full s: at
\* least one cell more, at most double
GrowCaps(s) ==
    (s.len + 1)..(IF 2 * s.cap > s.len + 1 THEN 2 * s.cap ELSE s.len + 1)

(***************************************************************************)
(* The Podcast's items.  Each operation takes the heap and the slice       *)
(* p.items and returns the heap and the slice as it leaves them.           *)
(***************************************************************************)
\* an AddItem that writes over the last item
AddItemOverLast(h, items, item, newcap) ==
    IF items.len = 0 THEN append(h, items, item, newcap)
    ELSE [arrays |-> store(h, items, items.len, item), slice |-> items]

\* Podcast.AddItem
AddItem(h, items, item, newcap) == append(h, items, item, newcap)

\* the items moved to the array m made with the expected capacity
reserve(m, items) ==
    [arrays |-> copy(m.arrays, m.slice, items), slice |-> m.slice]

\* an AddItemWithCapacity that does not copy the items it has
AddItemWithCapacityNoCopy(h, items, item, expectedTotal, newcap) ==
    IF items.cap < expectedTotal
    THEN \* the new array without the items
         appendInPlace(make(h, items.len, expectedTotal).arrays,
                       make(h, items.len, expectedTotal).slice, item)
    ELSE append(h, items, item, newcap)

\* Podcast.AddItemWithCapacity
AddItemWithCapacity(h, items, item, expectedTotal, newcap) ==
    IF items.cap < expectedTotal
    THEN appendInPlace(reserve(make(h, items.len, expectedTotal), items).arrays,
                       reserve(make(h, items.len, expectedTotal), items).slice,
                       item)
    ELSE append(h, items, item, newcap)

\* Podcast.GetItemCount
GetItemCount(items) == items.len

\* a GetItems that returns the Podcast's own slice
GetItemsNoCopy(h, items) == [arrays |-> h, slice |-> items]

\* Podcast.GetItems
GetItems(h, items) == reserve(make(h, items.len, items.len), items)

\* Podcast.GetItemsSlice
GetItemsSlice(h, items) == [arrays |-> h, slice |-> items]

(***************************************************************************)
(* Value formatters.  Numbers are written digit by digit.  A time.Duration *)
(* is held as Seconds() splits it, sec = d / Second and nsec = d % Second, *)
(* both of the sign of d.  A time.Time is held broken down in its zone.    *)
(***************************************************************************)
\* Go's integer division and remainder, which truncate toward zero
Quot(a, b) == IF a >= 0 THEN a \div b ELSE -((-a) \div b)

Rem(a, b) == a - b * Quot(a, b)

Abs(n) == IF n < 0 THEN -n ELSE n

\* the number of bits of n >= 0
RECURSIVE BitLen(_)
BitLen(n) == IF n = 0 THEN 0 ELSE 1 + BitLen(n \div 2)

\* whether float64(sec) + float64(nsec)/1e9 rounds to sec + 1: a float64
\* carries 53 bits, so next to a sec of b bits the sum is kept to a
\* multiple of 2^(b-53) and a fraction within half of that below one is
\* rounded up to the next whole second
SecondsRoundsUp(sec, nsec) ==
    /\ BitLen(sec) >= 25
    /\ (10^9 - nsec) <= 10^9 \div 2^(54 - BitLen(sec))

\* int(d.Seconds())
intSeconds(d) ==
    IF d.sec < 0 \/ d.nsec < 0
    THEN -(Abs(d.sec)
           + (IF SecondsRoundsUp(Abs(d.sec), Abs(d.nsec)) THEN 1 ELSE 0))
    ELSE d.sec + (IF SecondsRoundsUp(d.sec, d.nsec) THEN 1 ELSE 0)

Digit(n) == <<"0", "1", "2", "3", "4", "5", "6", "7", "8", "9">>[n + 1]

RECURSIVE Digits(_)
Digits(n) ==
    IF n < 10 THEN <<Digit(n)>>
    ELSE Append(Digits(n \div 10), Digit(n % 10))

\* strconv.Itoa
Itoa(n) == IF n < 0 THEN <<"-">> \o Digits(-n) ELSE Digits(n)

\* the builder of formatDuration, once hours, minutes and total are split
formatParts(hours, minutes, total) ==
    (IF hours > 0 THEN Itoa(hours) \o <<":">> ELSE <<>>)
    \o (IF hours > 0 /\ minutes < 10 THEN <<"0">> ELSE <<>>)
    \o Itoa(minutes) \o <<":">>
    \o (IF total < 10 THEN <<"0">> ELSE <<>>)
    \o Itoa(total)

formatDuration(d) ==
    formatParts(Quot(intSeconds(d), 3600),
                Quot(Rem(intSeconds(d), 3600), 60),
                Rem(Rem(intSeconds(d), 3600), 60))

Pad2(n) == <<Digit(n \div 10), Digit(n % 10)>>

shortDayNames == <<"Sun", "Mon", "Tue", "Wed", "Thu", "Fri", "Sat">>

shortMonthNames ==
    <<"Jan", "Feb", "Mar", "Apr", "May", "Jun",
      "Jul", "Aug", "Sep", "Oct", "Nov", "Dec">>

\* the decimal digits of x, with zeros ahead of them up to width digits and
\* a minus sign ahead of those for a negative x
appendInt(x, width) ==
    (IF x < 0 THEN <<"-">> ELSE <<>>)
    \o [i \in 1..(width - Len(Digits(Abs(x)))) |-> "0"]
    \o Digits(Abs(x))

\* a time.Time: the instant, as days since 1970-01-01 UTC and second of
\* the day, and the offset of its zone in seconds east of UTC
Instant(day, sec, offset) == [day |-> day, sec |-> sec, offset |-> offset]

\* year, month and day of the day that is days after 1970-01-01, in the
\* proleptic Gregorian calendar
civil(days) ==
    LET z == days + 719468
        era == z \div 146097
        doe == z - era * 146097
        yoe == (doe - doe \div 1460 + doe \div 36524 - doe \div 146096)
                   \div 365
        doy == doe - (365 * yoe + yoe \div 4 - yoe \div 100)
        mp == (5 * doy + 2) \div 153
        m == IF mp < 10 THEN mp + 3 ELSE mp - 9
    IN  [year |-> yoe + era * 400 + (IF m <= 2 THEN 1 ELSE 0),
         month |-> m,
         day |-> doy - (153 * mp + 2) \div 5 + 1]

\* the time of t on the day d of its zone, s seconds into the day
clockOn(t, d, s) ==
    [year |-> civil(d).year, month |-> civil(d).month, day |-> civil(d).day,
     hour |-> s \div 3600, min |-> (s % 3600) \div 60, sec |-> s % 60,
     weekday |-> (d + 4) % 7, offset |-> Quot(t.offset, 60)]

\* Time.Date, Time.Clock, Time.Weekday and Time.Zone: t broken down in its
\* zone, the offset in whole minutes
broken(t) ==
    clockOn(t, t.day + (t.sec + t.offset) \div 86400,
            (t.sec + t.offset) % 86400)

\* Time.Format(rfc2822), the layout "Mon, 02 Jan 2006 15:04:05 -0700"
rfc2822(t) ==
    <<shortDayNames[t.weekday + 1], ",", " ">> \o Pad2(t.day)
    \o <<" ", shortMonthNames[t.month], " ">>
    \o appendInt(t.year, 4)
    \o <<" ">> \o Pad2(t.hour) \o <<":">> \o Pad2(t.min) \o <<":">>
    \o Pad2(t.sec)
    \o <<" ", IF t.offset < 0 THEN "-" ELSE "+">>
    \o Pad2(Abs(t.offset) \div 60) \o Pad2(Abs(t.offset) % 60)

(***************************************************************************)
(* encoding/xml.  Marshalling turns a value into the tokens the Encoder is *)
(* handed, in the order of the struct's fields; the Encoder's printer      *)
(* turns tokens into output.  Output is a sequence of lexemes [k, s]: the  *)
(* declaration, "<name" (open), " name=\"" (attr), the closing quote of an *)
(* attribute, ">" (gt), "</name>" (close), the CDATA brackets, a newline,  *)
(* one unit of indentation, and chr, an atom of text as it is written.     *)
(***************************************************************************)
Attr(name, value) == [n |-> name, v |-> value]

StartElement(name, attr) == [k |-> "start", n |-> name, a |-> attr, v |-> <<>>]

EndElement(name) == [k |-> "end", n |-> name, a |-> <<>>, v |-> <<>>]

CharData(v) == [k |-> "chardata", n |-> "", a |-> <<>>, v |-> v]

CDATA(v) == [k |-> "cdata", n |-> "", a |-> <<>>, v |-> v]

\* a string field: an element around the text; nothing for an empty
\* string under omitempty
marshalString(name, v, omitempty) ==
    IF omitempty /\ v = <<>> THEN <<>>
    ELSE <<StartElement(name, <<>>), CharData(v), EndElement(name)>>

\* an int field under omitempty
marshalInt(name, n) ==
    IF n = 0 THEN <<>>
    ELSE <<StartElement(name, <<>>), CharData(Itoa(n)), EndElement(name)>>

\* a *CDATAText field: nothing for nil
marshalCDATAText(name, p) ==
    IF p = Nil THEN <<>>
    ELSE <<StartElement(name, <<>>), CDATA(Deref(p).Value), EndElement(name)>>

\* PubDate.MarshalXML behind a *PubDate field
marshalPubDate(name, p) ==
    IF p = Nil THEN <<>>
    ELSE <<StartElement(name, <<>>), CharData(rfc2822(Deref(p))),
           EndElement(name)>>

\* Duration.MarshalXML behind a *Duration field
marshalDuration(name, p) ==
    IF p = Nil THEN <<>>
    ELSE <<StartElement(name, <<>>), CharData(formatDuration(Deref(p))),
           EndElement(name)>>

marshalOwner(p) ==
    IF p = Nil THEN <<>>
    ELSE <<StartElement("itunes:owner", <<>>)>>
         \o marshalString("itunes:name", Deref(p).Name, FALSE)
         \o marshalString("itunes:email", Deref(p).Email, FALSE)
         \o <<EndElement("itunes:owner")>>

marshalImage(p) ==
    IF p = Nil THEN <<>>
    ELSE <<StartElement("itunes:image", <<Attr("href", Deref(p).Href)>>),
           EndElement("itunes:image")>>

marshalEnclosure(p) ==
    IF p = Nil THEN <<>>
    ELSE <<StartElement("enclosure",
               <<Attr("url", Deref(p).URL)>>
               \o (IF Deref(p).Length = <<>> THEN <<>>
                   ELSE <<Attr("length", Deref(p).Length)>>)
               \o <<Attr("type", Deref(p).Type)>>),
           EndElement("enclosure")>>

RECURSIVE marshalCategory(_)
RECURSIVE marshalCategories(_, _)

marshalCategory(c) ==
    <<StartElement("itunes:category", <<Attr("text", c.Text)>>)>>
    \o marshalCategories(c.Categories, 1)
    \o <<EndElement("itunes:category")>>

\* the categories of a slice from position i on
marshalCategories(cats, i) ==
    IF i > Len(cats) THEN <<>>
    ELSE marshalCategory(cats[i]) \o marshalCategories(cats, i + 1)

\* an Item that writes its image ahead of its enclosure
marshalItemImageFirst(it) ==
    <<StartElement("item", <<>>)>>
    \o marshalString("title", it.Title, FALSE)
    \o marshalString("guid", it.GUID, FALSE)
    \o marshalPubDate("pubDate", it.PubDate)
    \o marshalCDATAText("description", it.Description)
    \o marshalCDATAText("content:encoded", it.ContentEncoded)
    \o marshalString("itunes:author", it.Author, TRUE)
    \o marshalString("itunes:block", it.Block, TRUE)
    \o marshalDuration("itunes:duration", it.Duration)
    \o marshalString("itunes:explicit", it.Explicit, TRUE)
    \o marshalString("itunes:isClosedCaptioned", it.ClosedCaptioned, TRUE)
    \o marshalInt("itunes:order", it.Order)
    \o marshalString("itunes:subtitle", it.Subtitle, TRUE)
    \o marshalCDATAText("itunes:summary", it.Summary)
    \o marshalImage(it.Image)
    \o marshalEnclosure(it.Enclosure)
    \o <<EndElement("item")>>

marshalItem(it) ==
    <<StartElement("item", <<>>)>>
    \o marshalString("title", it.Title, FALSE)
    \o marshalString("guid", it.GUID, FALSE)
    \o marshalPubDate("pubDate", it.PubDate)
    \o marshalCDATAText("description", it.Description)
    \o marshalCDATAText("content:encoded", it.ContentEncoded)
    \o marshalString("itunes:author", it.Author, TRUE)
    \o marshalString("itunes:block", it.Block, TRUE)
    \o marshalDuration("itunes:duration", it.Duration)
    \o marshalString("itunes:explicit", it.Explicit, TRUE)
    \o marshalString("itunes:isClosedCaptioned", it.ClosedCaptioned, TRUE)
    \o marshalInt("itunes:order", it.Order)
    \o marshalString("itunes:subtitle", it.Subtitle, TRUE)
    \o marshalCDATAText("itunes:summary", it.Summary)
    \o marshalEnclosure(it.Enclosure)
    \o marshalImage(it.Image)
    \o <<EndElement("item")>>

\* the items of a slice from position i on
RECURSIVE marshalItems(_, _)
marshalItems(items, i) ==
    IF i > Len(items) THEN <<>>
    ELSE marshalItem(items[i]) \o marshalItems(items, i + 1)

\* a Channel that writes its categories ahead of its items
marshalChannelCategoriesFirst(p) ==
    IF p = Nil THEN <<>>
    ELSE <<StartElement("channel", <<>>)>>
         \o marshalString("title", Deref(p).Title, FALSE)
         \o marshalString("link", Deref(p).Link, FALSE)
         \o marshalString("copyright", Deref(p).Copyright, FALSE)
         \o marshalString("language", Deref(p).Language, FALSE)
         \o marshalString("description", Deref(p).Description, FALSE)
         \o marshalString("itunes:author", Deref(p).Author, TRUE)
         \o marshalString("itunes:block", Deref(p).Block, TRUE)
         \o marshalString("itunes:explicit", Deref(p).Explicit, TRUE)
         \o marshalString("itunes:complete", Deref(p).Complete, TRUE)
         \o marshalString("itunes:new-feed-url", Deref(p).NewFeedURL, TRUE)
         \o marshalString("itunes:subtitle", Deref(p).Subtitle, TRUE)
         \o marshalCDATAText("itunes:summary", Deref(p).Summary)
         \o marshalOwner(Deref(p).Owner)
         \o marshalImage(Deref(p).Image)
         \o marshalCategories(Deref(p).Categories, 1)
         \o marshalItems(Deref(p).Items, 1)
         \o <<EndElement("channel")>>

\* the *Channel field of the Feed: nothing for nil
marshalChannel(p) ==
    IF p = Nil THEN <<>>
    ELSE <<StartElement("channel", <<>>)>>
         \o marshalString("title", Deref(p).Title, FALSE)
         \o marshalString("link", Deref(p).Link, FALSE)
         \o marshalString("copyright", Deref(p).Copyright, FALSE)
         \o marshalString("language", Deref(p).Language, FALSE)
         \o marshalString("description", Deref(p).Description, FALSE)
         \o marshalString("itunes:author", Deref(p).Author, TRUE)
         \o marshalString("itunes:block", Deref(p).Block, TRUE)
         \o marshalString("itunes:explicit", Deref(p).Explicit, TRUE)
         \o marshalString("itunes:complete", Deref(p).Complete, TRUE)
         \o marshalString("itunes:new-feed-url", Deref(p).NewFeedURL, TRUE)
         \o marshalString("itunes:subtitle", Deref(p).Subtitle, TRUE)
         \o marshalCDATAText("itunes:summary", Deref(p).Summary)
         \o marshalOwner(Deref(p).Owner)
         \o marshalImage(Deref(p).Image)
         \o marshalItems(Deref(p).Items, 1)
         \o marshalCategories(Deref(p).Categories, 1)
         \o <<EndElement("channel")>>

marshalFeed(f) ==
    <<StartElement("rss", <<Attr("xmlns:itunes", f.ItunesXMLNS),
                            Attr("xmlns:content", f.ContentXMLNS),
                            Attr("version", f.Version)>>)>>
    \o marshalChannel(f.Channel)
    \o <<EndElement("rss")>>

Lex(k, s) == [k |-> k, s |-> s]

\* xml.Header
xmlHeader ==
    <<Lex("decl", "<?xml version=\"1.0\" encoding=\"UTF-8\"?>"),
      Lex("nl", "\n")>>

\* what EscapeText and EscapeString write for one atom of text
EscapeAtom(c) ==
    CASE c = "<" -> "&lt;"
      [] c = ">" -> "&gt;"
      [] c = "&" -> "&amp;"
      [] c = "\"" -> "&#34;"
      [] c = "'" -> "&#39;"
      [] c = "\n" -> "&#xA;"
      [] OTHER -> c

EscapeText(v) == [i \in 1..Len(v) |-> Lex("chr", EscapeAtom(v[i]))]

\* text written as it is
RawText(v) == [i \in 1..Len(v) |-> Lex("chr", v[i])]

\* the inside of a CDATA section from atom i on: a "]]>" in the text ends
\* the section after "]]" and opens the next one before ">"
RECURSIVE cdataBody(_, _)
cdataBody(v, i) ==
    IF i > Len(v) THEN <<>>
    ELSE (IF v[i] = "]]>"
          THEN <<Lex("chr", "]]"), Lex("cdend", "]]>"),
                 Lex("cdata", "<![CDATA["), Lex("chr", ">")>>
          ELSE <<Lex("chr", v[i])>>)
         \o cdataBody(v, i + 1)

emitCDATA(v) ==
    IF v = <<>> THEN <<>>
    ELSE <<Lex("cdata", "<![CDATA[")>> \o cdataBody(v, 1)
         \o <<Lex("cdend", "]]>")>>

\* the printer of a new Encoder after Indent(prefix, "  "), the prefix
\* counted in units of two spaces
Printer(prefix) ==
    [prefix |-> prefix, depth |-> 0, indentedIn |-> FALSE,
     putNewline |-> FALSE]

Indentation(n) == [i \in 1..n |-> Lex("indent", "  ")]

\* printer.writeIndent: what it writes, and the printer after it
writeIndent(p, depthDelta) ==
    IF depthDelta < 0 /\ p.indentedIn
    THEN [lex |-> <<>>,
          p |-> [p EXCEPT !.depth = @ - 1, !.indentedIn = FALSE]]
    ELSE [lex |-> (IF p.putNewline THEN <<Lex("nl", "\n")>> ELSE <<>>)
                  \o Indentation(p.prefix + (IF depthDelta < 0
                                             THEN p.depth - 1 ELSE p.depth)),
          p |-> [p EXCEPT !.depth = IF depthDelta < 0 THEN @ - 1 ELSE @ + 1,
                          !.indentedIn = depthDelta > 0,
                          !.putNewline = TRUE]]

\* the attributes of a start tag from attribute i on
RECURSIVE writeAttrs(_, _)
writeAttrs(a, i) ==
    IF i > Len(a) THEN <<>>
    ELSE <<Lex("attr", a[i].n)>> \o EscapeText(a[i].v)
         \o <<Lex("quote", "\"")>> \o writeAttrs(a, i + 1)

\* printer.writeStart and printer.writeEnd after the writeIndent w
writeStart(tok, w) ==
    [lex |-> w.lex \o <<Lex("open", tok.n)>> \o writeAttrs(tok.a, 1)
             \o <<Lex("gt", ">")>>,
     p |-> w.p]

writeEnd(tok, w) == [lex |-> w.lex \o <<Lex("close", tok.n)>>, p |-> w.p]

\* one token through the printer
EncodeToken(tok, p) ==
    CASE tok.k = "start" -> writeStart(tok, writeIndent(p, 1))
      [] tok.k = "end" -> writeEnd(tok, writeIndent(p, -1))
      [] tok.k = "chardata" -> [lex |-> EscapeText(tok.v), p |-> p]
      [] tok.k = "cdata" -> [lex |-> emitCDATA(tok.v), p |-> p]

\* the tokens lo..hi of toks through the printer p in turn, the first half
\* and then the second: what is written, and the printer after it
RECURSIVE EncodeTokens(_, _, _, _)
RECURSIVE EncodeRest(_, _, _, _)

EncodeJoin(out, r) == [out |-> out \o r.out, p |-> r.p]

EncodeRest(toks, mid, hi, l) ==
    EncodeJoin(l.out, EncodeTokens(toks, mid + 1, hi, l.p))

EncodeOne(w) == [out |-> w.lex, p |-> w.p]

EncodeTokens(toks, lo, hi, p) ==
    IF lo > hi THEN [out |-> <<>>, p |-> p]
    ELSE IF lo = hi THEN EncodeOne(EncodeToken(toks[lo], p))
    ELSE EncodeRest(toks, (lo + hi) \div 2, hi,
                    EncodeTokens(toks, lo, (lo + hi) \div 2, p))

\* Encoder.Encode of a value marshalled to toks: out is what the Encoder
\* has buffered, which the closing Flush hands to the writer in one write.
\* The documents modelled fit the Encoder's buffer.
Encode(toks, p) == EncodeTokens(toks, 1, Len(toks), p)

(***************************************************************************)
(* The sink and the serialization strategies.  A strategy makes its write  *)
(* calls in turn and returns at the first one that fails; a sink takes     *)
(* each write whole or fails it whole, and failAt is the number of the     *)
(* write call that fails, 0 for a sink that takes them all.                *)
(***************************************************************************)
\* the error of a failing sink
ErrWrite == "ErrWrite"

\* a nil pointer dereference
Panic == "panic"

\* a strategy that makes its remaining writes after the one that failed
DeliverCarriesOn(writes, failAt) ==
    IF failAt \in 1..Len(writes)
    THEN [err |-> ErrWrite,
          sink |-> SubSeq(writes, 1, failAt - 1)
                   \o SubSeq(writes, failAt + 1, Len(writes)),
          calls |-> Len(writes)]
    ELSE [err |-> NoErr, sink |-> writes, calls |-> Len(writes)]

\* the writes made in turn on the sink: the error, what the sink took, and
\* the number of write calls made on it, the failed one included
Deliver(writes, failAt) ==
    IF failAt \in 1..Len(writes)
    THEN [err |-> ErrWrite, sink |-> SubSeq(writes, 1, failAt - 1),
          calls |-> failAt]
    ELSE [err |-> NoErr, sink |-> writes, calls |-> Len(writes)]

\* the bytes of the writes from write i on
RECURSIVE Flat(_, _)
Flat(writes, i) ==
    IF i > Len(writes) THEN <<>> ELSE writes[i] \o Flat(writes, i + 1)

\* Feed.Write: the header, then the encoded Feed
Write(f, failAt) ==
    Deliver(<<xmlHeader, Encode(marshalFeed(f), Printer(0)).out>>,
            failAt)

\* what XML returns when Write into its buffer returned r
XMLReturn(r) ==
    [err |-> r.err, str |-> IF r.err # NoErr THEN <<>> ELSE Flat(r.sink, 1)]

XML(f) == XMLReturn(Write(f, 0))

WriteOptions(bufferSize, usePool) ==
    [BufferSize |-> bufferSize, UsePool |-> usePool]

\* bytes.Buffer: Reset empties it, WriteTo hands its data to the writer in
\* one write and empties it when the writer took the data
Reset(b) == <<>>

WriteTo(data, failAt) ==
    IF failAt = 1
    THEN [err |-> ErrWrite, sink |-> <<>>, calls |-> 1, buf |-> data]
    ELSE [err |-> NoErr, sink |-> <<data>>, calls |-> 1, buf |-> <<>>]

\* WriteWithOptions with a buffer: header and Feed into buf, buf to writer
writeBuffered(f, failAt, buf) ==
    WriteTo(buf \o xmlHeader
                \o Encode(marshalFeed(f), Printer(0)).out,
            failAt)

\* WriteWithOptions without a buffer: header and Feed straight to writer
writeUnbuffered(r, b) ==
    [err |-> r.err, sink |-> r.sink, calls |-> r.calls, buf |-> b]

\* a WriteWithOptions that uses the pooled buffer as it finds it
WriteWithOptionsNoReset(f, opts, failAt, b) ==
    IF opts.UsePool THEN writeBuffered(f, failAt, b)
    ELSE IF opts.BufferSize > 0 THEN writeBuffered(f, failAt, <<>>)
    ELSE writeUnbuffered(Write(f, failAt), b)

\* Feed.WriteWithOptions, b being the buffer Get returns under UsePool;
\* buf is the buffer as it is put back
WriteWithOptions(f, opts, failAt, b) ==
    IF opts.UsePool THEN writeBuffered(f, failAt, Reset(b))
    ELSE IF opts.BufferSize > 0 THEN writeBuffered(f, failAt, <<>>)
    ELSE writeUnbuffered(Write(f, failAt), b)

\* what XMLWithOptions returns when WriteWithOptions into the buffer outer
\* returned r; outer and inner are the two buffers as they are put back
XMLWithOptionsReturn(r, outer) ==
    [err |-> r.err,
     str |-> IF r.err # NoErr THEN <<>> ELSE outer \o Flat(r.sink, 1),
     outer |-> outer \o Flat(r.sink, 1),
     inner |-> r.buf]

\* Feed.XMLWithOptions, b1 and b2 being the buffers its own Get and the
\* Get of WriteWithOptions return under UsePool
XMLWithOptions(f, opts, b1, b2) ==
    XMLWithOptionsReturn(WriteWithOptions(f, opts, 0, b2),
                         IF opts.UsePool THEN Reset(b1) ELSE <<>>)

\* the nine writes of Feed.writeOpeningTags
writeOpeningTags(f) ==
    <<xmlHeader,
      <<Lex("open", "rss"), Lex("attr", "xmlns:itunes")>>,
      RawText(f.ItunesXMLNS),
      <<Lex("quote", "\""), Lex("attr", "xmlns:content")>>,
      RawText(f.ContentXMLNS),
      <<Lex("quote", "\""), Lex("attr", "version")>>,
      RawText(f.Version),
      <<Lex("quote", "\""), Lex("gt", ">")>>,
      <<Lex("nl", "\n"), Lex("indent", "  "), Lex("open", "channel"),
        Lex("gt", ">"), Lex("nl", "\n")>>>>

\* the write of writeClosingTags
writeClosingTags ==
    <<Lex("nl", "\n"), Lex("indent", "  "), Lex("close", "channel"),
      Lex("nl", "\n"), Lex("close", "rss"), Lex("nl", "\n")>>

\* writeElement: the value handed to Encode, nothing for an empty value
writeElement(name, value) ==
    IF value = <<>> THEN <<>>
    ELSE <<StartElement(name, <<>>), CharData(value), EndElement(name)>>

\* the values the three helpers hand to Encode, in call order
writeBasicChannelMetadata(channel) ==
    <<writeElement("title", channel.Title),
      writeElement("link", channel.Link),
      writeElement("description", channel.Description),
      writeElement("language", channel.Language),
      writeElement("copyright", channel.Copyright)>>

writeItunesChannelMetadata(channel) ==
    <<writeElement("itunes:author", channel.Author),
      writeElement("itunes:block", channel.Block),
      writeElement("itunes:explicit", channel.Explicit),
      writeElement("itunes:complete", channel.Complete),
      writeElement("itunes:new-feed-url", channel.NewFeedURL),
      writeElement("itunes:subtitle", channel.Subtitle)>>

writeComplexChannelElements(channel) ==
    <<marshalCDATAText("itunes:summary", channel.Summary),
      marshalOwner(channel.Owner),
      marshalImage(channel.Image)>>
    \o [i \in 1..Len(channel.Categories) |->
            marshalCategory(channel.Categories[i])]

\* an Encode call was made for the value
Encoded(toks) == toks # <<>>

\* the Encode calls of StreamWrite from call i on, made on the one Encoder
\* with printer p: each call ends in a Flush, one write on the sink
RECURSIVE EncodeAll(_, _, _, _)
RECURSIVE EncodeAllNext(_, _, _, _)

EncodeAllNext(values, i, e, writes) ==
    EncodeAll(values, i + 1, e.p, Append(writes, e.out))

\* an Encoder that is flushed once, after the last value
EncodeAllFlushedOnce(values, i, p, writes) ==
    Append(writes, Encode(Flat(values, i), p).out)

EncodeAll(values, i, p, writes) ==
    IF i > Len(values) THEN writes
    ELSE EncodeAllNext(values, i, Encode(values[i], p), writes)

\* StreamWrite of a Feed without Channel: the opening tags, then the copy
\* of *f.Channel dereferences nil; the Feed is left as it was
streamNilChannel(r, f) ==
    [err |-> IF r.err # NoErr THEN r.err ELSE Panic, sink |-> r.sink,
     calls |-> r.calls, feed |-> f]

\* a tempChannel that is the Channel of the Feed itself, not a copy of it
tempChannelShared(f) ==
    [temp |-> [Deref(f.Channel) EXCEPT !.Items = <<>>],
     feed |-> WithChannel(f, "Items", <<>>)]

\* tempChannel := *f.Channel; tempChannel.Items = nil: the copy, without
\* items, and the Feed, which keeps its own
tempChannel(f) ==
    [temp |-> [Deref(f.Channel) EXCEPT !.Items = <<>>], feed |-> f]

\* the writes of StreamWrite on a sink that takes them all, t being the
\* copy of the Channel and the Feed once the copy is made
streamWrites(f, t) ==
    writeOpeningTags(f)
    \o EncodeAll(
           SelectSeq(
               writeBasicChannelMetadata(t.temp)
               \o writeItunesChannelMetadata(t.temp)
               \o writeComplexChannelElements(t.temp)
               \o [i \in 1..Len(Deref(t.feed.Channel).Items) |->
                       marshalItem(Deref(t.feed.Channel).Items[i])],
               Encoded),
           1, Printer(2), <<>>)
    \o <<writeClosingTags>>

\* what StreamWrite returns, and the Feed as it leaves it: the copy is made
\* once the opening tags are written
streamReturn(r, f, t) ==
    [err |-> r.err, sink |-> r.sink, calls |-> r.calls,
     feed |-> IF r.err # NoErr /\ r.calls <= Len(writeOpeningTags(f))
              THEN f ELSE t.feed]

\* a StreamWrite that writes the closing tags after a write that failed
StreamWriteClosesAnyway(f, failAt) ==
    IF f.Channel = Nil
    THEN streamNilChannel(Deliver(writeOpeningTags(f), failAt), f)
    ELSE LET r == Deliver(streamWrites(f, tempChannel(f)), failAt)
         IN  streamReturn(
                 [err |-> r.err,
                  sink |-> IF r.err = NoErr THEN r.sink
                           ELSE Append(r.sink, writeClosingTags),
                  calls |-> r.calls],
                 f, tempChannel(f))

\* Feed.StreamWrite
StreamWrite(f, failAt) ==
    IF f.Channel = Nil
    THEN streamNilChannel(Deliver(writeOpeningTags(f), failAt), f)
    ELSE streamReturn(Deliver(streamWrites(f, tempChannel(f)), failAt),
                      f, tempChannel(f))

(***************************************************************************)
(* Inputs of the option calls.                                             *)
(***************************************************************************)
\* URLs with what they are: the two absolute ones and every way of not being
URLCases ==
    {[u |-> <<>>, kind |-> "empty"],
     [u |-> <<"a">>, kind |-> "no scheme"],
     [u |-> <<"a", " ", "a">>, kind |-> "no scheme"],
     [u |-> <<"a", "/", "a">>, kind |-> "relative path"],
     [u |-> <<"/", "a">>, kind |-> "relative path"],
     [u |-> <<":", "/", "/", "a">>, kind |-> "unparseable"],
     [u |-> <<"a", ":", "/", "/", "a", "/", "^">>, kind |-> "unparseable"],
     [u |-> <<"a", ":", "a">>, kind |-> "no host"],
     [u |-> <<"a", ":", "/", "a">>, kind |-> "no host"],
     [u |-> <<"a", ":", "/", "/">>, kind |-> "no host"],
     [u |-> <<"a", ":", "/", "/", "/", "a">>, kind |-> "no host"],
     [u |-> <<"a", ":", "/", "/", "a">>, kind |-> "absolute"],
     [u |-> <<"a", ":", "/", "/", "a", "/", "a">>, kind |-> "absolute"]}

URLs == {c.u : c \in URLCases}

URLKind(u) == (CHOOSE c \in URLCases : c.u = u).kind

GoodURL == <<"a", ":", "/", "/", "a", "/", "a">>
BadURL == <<"/", "a">>

\* every built-in option, and the failing option of the tests
Options ==
    {Opt("Author", <<"A">>, <<>>), Opt("Block", <<>>, <<>>),
     Opt("Explicit", <<>>, <<>>), Opt("Complete", <<>>, <<>>),
     Opt("Subtitle", <<"S">>, <<>>), Opt("Summary", <<"M">>, <<>>),
     Opt("Owner", <<"N">>, <<"E">>), Opt("errorOption", <<>>, <<>>)}
    \cup {Opt("NewFeedURL", u, <<>>) : u \in URLs}
    \cup {Opt("Image", u, <<>>) : u \in URLs}

\* the options the option lists are made of
ListOptions ==
    {Opt("Author", <<"A">>, <<>>), Opt("Author", <<"B">>, <<>>),
     Opt("Image", <<"a">>, <<>>), Opt("Subtitle", <<"S">>, <<>>)}

OptionLists == SeqsUpTo(ListOptions, MaxOpts)

PodcastSet ==
    {Podcast(<<>>, <<>>, <<>>, <<>>, <<>>, <<>>),
     Podcast(<<"T">>, <<"D">>, <<"L">>, <<"en">>, <<"C">>, <<>>)}

\* the options of the Feeds that are built and then written: none, two that
\* succeed, and one that succeeds ahead of one that fails
BuiltOptionLists ==
    {<<>>,
     <<Opt("Author", <<"A", "&">>, <<>>), Opt("Image", GoodURL, <<>>)>>,
     <<Opt("Subtitle", <<"S">>, <<>>), Opt("Image", BadURL, <<>>)>>}

\* the options of the calls that write them
BuiltWriteOptions ==
    {WriteOptions(0, FALSE), WriteOptions(4096, FALSE), WriteOptions(0, TRUE)}

(***************************************************************************)
(* Inputs of the serialization calls: Feeds built field by field, as a     *)
(* caller may build them, over four settings of the channel metadata, the  *)
(* first n items and the first n categories of two fixed lists.            *)
(***************************************************************************)
MaxItems == 2
MaxCats == 2

\* 2015-01-01 00:00:00 UTC, a Thursday, and 2024-02-29 23:59:09 -0530
Times ==
    <<[year |-> 2015, month |-> 1, day |-> 1, hour |-> 0, min |-> 0,
       sec |-> 0, weekday |-> 4, offset |-> 0],
      [year |-> 2024, month |-> 2, day |-> 29, hour |-> 23, min |-> 59,
       sec |-> 9, weekday |-> 4, offset |-> -330]>>

\* the i-th item: one with every field set, one with no enclosure and few
\* fields, one with title, GUID and enclosure only, and so on in turn
ItemAt(i) ==
    CASE i % 3 = 1 ->
           [Title |-> <<"t", "&">>, GUID |-> <<"g", Digit(i)>>,
            PubDate |-> NewPubDate(Times[1]),
            Description |-> Ptr(CDATAText(<<"<b>", "d">>)),
            ContentEncoded |-> Ptr(CDATAText(<<"c", "]]>">>)),
            Author |-> <<"a">>, Block |-> ValueYes,
            Duration |-> NewDuration(91845, 0), Explicit |-> ValueYes,
            ClosedCaptioned |-> ValueYes, Order |-> i,
            Subtitle |-> <<"s">>, Summary |-> Ptr(CDATAText(<<"m">>)),
            Enclosure |-> Ptr(Enclosure(<<"u">>, <<"1">>, <<"audio/mpeg">>)),
            Image |-> Ptr(ItunesImage(<<"h", "\"">>))]
      [] i % 3 = 2 ->
           [Title |-> <<>>, GUID |-> <<"g", Digit(i)>>,
            PubDate |-> NewPubDate(Times[2]),
            Description |-> Nil, ContentEncoded |-> Nil,
            Author |-> <<>>, Block |-> <<>>,
            Duration |-> NewDuration(64, 999999999), Explicit |-> <<>>,
            ClosedCaptioned |-> <<>>, Order |-> 0,
            Subtitle |-> <<"s">>, Summary |-> Ptr(CDATAText(<<>>)),
            Enclosure |-> Nil, Image |-> Ptr(ItunesImage(<<>>))]
      [] OTHER ->
           [Item(<<"t">>, <<"g", Digit(i)>>, Nil) EXCEPT
                !.Enclosure = Ptr(Enclosure(<<"u">>, <<>>, <<>>))]

\* the i-th category: one with a subcategory, one without
CategoryAt(i) ==
    IF i % 2 = 1
    THEN ItunesCategory(<<"Arts">>,
                        <<ItunesCategory(<<"Design", "&">>, <<>>)>>)
    ELSE ItunesCategory(<<"News">>, <<>>)

ItemLists == {[i \in 1..n |-> ItemAt(i)] : n \in 0..MaxItems}

CategoryLists == {[i \in 1..n |-> CategoryAt(i)] : n \in 0..MaxCats}

\* the channel metadata: nothing set; everything set; some of each group
\* set; the five basic fields with an empty summary and an image
MetadataNone == Channel(<<>>, <<>>, <<>>, <<>>, <<>>, <<>>)

MetadataAll ==
    [Channel(<<"T", "&", "<">>, <<"D">>, <<"L">>, <<"C">>, <<"en">>, <<>>)
        EXCEPT !.Author = <<"A", "'">>, !.Block = ValueYes,
               !.Explicit = ValueYes, !.Complete = ValueYes,
               !.NewFeedURL = <<"a", ":", "/", "/", "a", "/", "a">>,
               !.Subtitle = <<"S">>,
               !.Summary = Ptr(CDATAText(<<"M", "<">>)),
               !.Owner = Ptr(ItunesOwner(<<"N">>, <<"E">>)),
               !.Image = Ptr(ItunesImage(<<"a", ":", "/", "/", "a">>))]

MetadataSome ==
    [Channel(<<"T">>, <<>>, <<"L">>, <<>>, <<>>, <<>>)
        EXCEPT !.Author = <<"A">>, !.Explicit = ValueYes,
               !.Owner = Ptr(ItunesOwner(<<"N">>, <<>>))]

MetadataBasic ==
    [Channel(<<"T">>, <<"D">>, <<"L">>, <<"C">>, <<"en">>, <<>>)
        EXCEPT !.Summary = Ptr(CDATAText(<<>>)),
               !.Image = Ptr(ItunesImage(<<>>))]

Metadata == {MetadataNone, MetadataAll, MetadataSome, MetadataBasic}

Channels ==
    {[m EXCEPT !.Items = items, !.Categories = cats] :
        m \in Metadata, items \in ItemLists, cats \in CategoryLists}

\* Feeds as Podcast.Feed stamps them, one without Channel, and one with
\* root attributes of the caller's
Feeds ==
    {Feed(itunesXMLNS, contentXMLNS, rssVersion, Ptr(c)) : c \in Channels}
    \cup {Feed(itunesXMLNS, contentXMLNS, rssVersion, Nil),
          Feed(<<"i", "&">>, <<>>, <<"2", "\"">>,
               Ptr(Channel(<<"T">>, <<"D">>, <<"L">>, <<"C">>, <<"en">>,
                           <<>>)))}

\* every combination of UsePool with a negative, zero and positive size
WriteOptionsSet ==
    {WriteOptions(size, usePool) : size \in {-1, 0, 4096},
                                   usePool \in BOOLEAN}

\* the sinks of Write and WriteWithOptions: one that takes every write and
\* ones that fail the first and the second; StreamWrite makes more writes,
\* and its sinks also fail the tenth, the first one of the Encoder
WriteFailures == {0, 1, 2}

StreamFailures == {0, 1, 2, 10}

\* the Feeds of the calls that go through the buffer pool: everything set
\* or nothing set, with every list of items and the longest of categories
PoolFeeds ==
    {Feed(itunesXMLNS, contentXMLNS, rssVersion,
          Ptr([m EXCEPT !.Items = items,
                        !.Categories = [i \in 1..MaxCats |-> CategoryAt(i)]])) :
        m \in {MetadataNone, MetadataAll}, items \in ItemLists}

\* the Feeds written to failing sinks: nothing set and no items, everything
\* set and every item, and a Feed without Channel
SinkFeeds ==
    {Feed(itunesXMLNS, contentXMLNS, rssVersion,
          Ptr([MetadataNone EXCEPT
                  !.Categories = [i \in 1..MaxCats |-> CategoryAt(i)]])),
     Feed(itunesXMLNS, contentXMLNS, rssVersion,
          Ptr([MetadataAll EXCEPT
                  !.Items = [i \in 1..MaxItems |-> ItemAt(i)],
                  !.Categories = [i \in 1..MaxCats |-> CategoryAt(i)]])),
     Feed(itunesXMLNS, contentXMLNS, rssVersion, Nil)}

\* the sinks of a strategy that makes n write calls on a sink that takes
\* them all: that one, and the ones that fail the k-th call, for every k up
\* to one call more than it makes
SinkFailures(n) == 0..(n + 1)

\* durations: every whole second up to MaxSeconds and some beyond, each
\* with no fraction, the smallest and the largest ones
MaxSeconds == 3700

DurationSeconds ==
    (0..MaxSeconds)
    \cup {7199, 7200, 35999, 36000, 37000, 86399, 86400, 91845, 359999,
          360000, 16777215, 16777216, 33554432}

Durations ==
    {[sec |-> s, nsec |-> n] :
        s \in DurationSeconds, n \in {0, 1, 999999999}}
    \cup {[sec |-> -s, nsec |-> -n] :
            s \in {0, 1, 59, 60, 3600, 3661}, n \in {1, 999999999}}
    \cup {[sec |-> -s, nsec |-> 0] : s \in {1, 59, 60, 3600, 3661}}

\* instants: every day from 2015-01-01 on for MaxDays days, and the days
\* 0001-01-01, 1970-01-01, 2024-02-29, 9999-12-31, 10000-01-01 and the last
\* day of the year before year 0, each at the first and the last second of
\* the day, in UTC and in zones behind and ahead of it, one of them with an
\* offset that is not a whole minute
MaxDays == 40

Instants ==
    {Instant(day, sec, offset) :
        day \in (16436..(16436 + MaxDays))
                 \cup {-719162, 0, 19782, 2932896, 2932897, -719529},
        sec \in {0, 86399},
        offset \in {0, -19800, 19830, 50400}}

(***************************************************************************)
(* Inputs of the calls on the Podcast's items: the k-th item appended is   *)
(* ItemAt(k); the capacity hints run from a negative one to one beyond     *)
(* every capacity reached; the caller writes another item, or nil, into    *)
(* the slices it was given.                                                *)
(***************************************************************************)
MaxAdds == 2
MaxHint == 3
MaxStores == 1

Hints == -1..MaxHint

OtherItem == ItemAt(0)

(***************************************************************************)
(* Inputs of the interleaved calls: the threads, the calls each makes, and *)
(* two Feeds of different content.                                         *)
(***************************************************************************)
MaxThreads == 2
MaxCalls == 2

ThreadIds == 1..MaxThreads

ThreadFeeds ==
    {Feed(itunesXMLNS, contentXMLNS, rssVersion, Ptr(MetadataNone)),
     Feed(itunesXMLNS, contentXMLNS, rssVersion, Ptr(MetadataBasic))}

(***************************************************************************)
(* State: the caller's Podcast, the Feed the caller holds (Nil before the  *)
(* first Podcast.Feed call), the shared buffer pool, ret, the call made    *)
(* last with what it returned, and direct, the number of options called    *)
(* one by one on the Feed since it was built; arrays, the heap of backing  *)
(* arrays, slices, the slices held, and history, what was done so far;     *)
(* threads, the calls in progress where calls interleave, and buffers, the *)
(* pool's buffers by name.                                                 *)
(* podcast.items and the Items of the Feed hold the Items their slices     *)
(* show; a Feed the caller built field by field has its Items in no array  *)
(* of the heap.                                                            *)
(***************************************************************************)
NoCall == [op |-> "none"]

\* the slices held: p.items, the Items of the Feed's Channel when the Feed
\* was built from the Podcast, and what GetItemsSlice and GetItems returned
\* to the caller last
NoSlices == [items |-> NilSlice, feed |-> Nil, live |-> Nil, snapshot |-> Nil]

\* what was done: the items appended in call order, the items the Podcast
\* held when the Feed was built, and whether the caller has written through
\* the slice GetItemsSlice returned, and the number of its writes into slices;
\* other, the channel metadata of a second Feed the caller built from the
\* Podcast and holds beside the Feed (Nil for none), and shared, whether the
\* two Feeds point at one Channel
NoHistory ==
    [added |-> <<>>, built |-> <<>>, replaced |-> FALSE, stores |-> 0,
     other |-> Nil, shared |-> FALSE]

\* the threads of the caller, none where calls are made one at a time, and
\* the buffers ever made by the pool's New, each named by its place in
\* data, with the names of those resting in the pool
NoThreads == <<>>

NoBuffers == [data |-> <<>>, resting |-> {}]

Init ==
    /\ podcast \in PodcastSet
    /\ feed = Nil
    /\ pool = {}
    /\ ret = NoCall
    /\ direct = 0
    /\ arrays = <<>>
    /\ slices = NoSlices
    /\ history = NoHistory
    /\ threads = NoThreads
    /\ buffers = NoBuffers

\* the arrays some slice of ss points into
Reachable(ss) ==
    {Deref(ss[k]).arr : k \in {c \in {"feed", "live", "snapshot"} :
                                  ss[c] # Nil}}
    \cup {ss.items.arr}

\* the place among the arrays kept of array a
Moved(keep, a) == Cardinality({b \in keep : b <= a})

MovedSlice(keep, s) == SliceOf(Moved(keep, s.arr), s.len, s.cap)

MovedPtr(keep, p) == IF p = Nil THEN Nil ELSE Ptr(MovedSlice(keep, Deref(p)))

\* the heap h without the arrays outside keep, and the slices ss on it
Kept(h, ss, keep) ==
    [arrays |-> [k \in 1..Cardinality(keep) |->
                    h[CHOOSE a \in keep : Moved(keep, a) = k]],
     slices |-> [items |-> MovedSlice(keep, ss.items),
                 feed |-> MovedPtr(keep, ss.feed),
                 live |-> MovedPtr(keep, ss.live),
                 snapshot |-> MovedPtr(keep, ss.snapshot)]]

\* garbage collection: the arrays no slice points into are gone
Collected(h, ss) == Kept(h, ss, Reachable(ss) \ {0})

\* the channel metadata of the Feed f
MetadataOf(f) == [Deref(f.Channel) EXCEPT !.Items = <<>>]

\* the second Feed once the Channel of the Feed holds the metadata of f: a
\* Channel of its own is as it was, a shared one is the one written
Other(h, f) ==
    IF h.other # Nil /\ h.shared THEN Ptr(MetadataOf(f)) ELSE h.other

\* feed, err := podcast.Feed(options...)
DoFeed(options) ==
    \E r \in {PodcastFeed(podcast, options)} :
        /\ feed' = r.feed
        /\ ret' = [op |-> "Feed", options |-> options, err |-> r.err,
                   log |-> r.log, pre |-> Nil, out |-> r.feed]
        /\ direct' = 0
        /\ \E c \in {Collected(arrays,
                               [slices EXCEPT !.feed = Ptr(slices.items)])} :
               arrays' = c.arrays /\ slices' = c.slices
        /\ \E h \in {[history EXCEPT
                           !.shared = (history.other # Nil
                                       /\ sharesChannel(podcast))]} :
               history' = [h EXCEPT !.built = podcast.items,
                                    !.other = Other(h, Deref(r.feed))]
        /\ UNCHANGED <<threads, buffers, podcast, pool>>

\* other, err := podcast.Feed(options...), by a caller that holds the Feed
DoFeedOther(options) ==
    /\ feed # Nil
    /\ \E r \in {PodcastFeed(podcast, options)} :
           /\ ret' = [op |-> "FeedOther", options |-> options,
                      err |-> r.err, log |-> r.log, pre |-> feed,
                      out |-> r.feed]
           /\ history' = [history EXCEPT
                              !.other = Ptr(MetadataOf(Deref(r.feed))),
                              !.shared = sharesChannel(podcast)]
           /\ IF sharesChannel(podcast)
              THEN /\ feed' = r.feed
                   /\ \E c \in {Collected(arrays,
                                          [slices EXCEPT
                                              !.feed = Ptr(slices.items)])} :
                          arrays' = c.arrays /\ slices' = c.slices
              ELSE UNCHANGED <<feed, arrays, slices>>
    /\ UNCHANGED <<threads, buffers, podcast, pool, direct>>

\* err := feed.SetOptions(options...)
DoSetOptions(options) ==
    /\ feed # Nil
    /\ \E r \in {SetOptions(Deref(feed), options)} :
           /\ feed' = Ptr(r.feed)
           /\ ret' = [op |-> "SetOptions", options |-> options, err |-> r.err,
                      log |-> r.log, pre |-> feed, out |-> Nil]
           /\ history' = [history EXCEPT !.other = Other(history, r.feed)]
    /\ UNCHANGED <<threads, buffers, arrays, slices, podcast, pool, direct>>

\* err := opt(feed)
DoOption(opt) ==
    /\ feed # Nil
    /\ direct < MaxDirect
    /\ \E r \in {Apply(opt, Deref(feed))} :
           /\ feed' = Ptr(r.feed)
           /\ ret' = [op |-> "Option", options |-> <<opt>>, err |-> r.err,
                      log |-> <<>>, pre |-> feed, out |-> Nil]
           /\ history' = [history EXCEPT !.other = Other(history, r.feed)]
    /\ direct' = direct + 1
    /\ UNCHANGED <<threads, buffers, arrays, slices, podcast, pool>>

\* err := feed.Write(sink)
DoWrite(failAt) ==
    /\ feed # Nil
    /\ \E r \in {Write(Deref(feed), failAt)} :
           ret' = [op |-> "Write", failAt |-> failAt, err |-> r.err,
                   sink |-> r.sink, calls |-> r.calls]
    /\ UNCHANGED <<threads, buffers, arrays, slices, history, podcast, feed,
                   pool, direct>>

\* str, err := feed.XML()
DoXML ==
    /\ feed # Nil
    /\ \E r \in {XML(Deref(feed))} :
           ret' = [op |-> "XML", err |-> r.err, str |-> r.str]
    /\ UNCHANGED <<threads, buffers, arrays, slices, history, podcast, feed,
                   pool, direct>>

\* err := feed.WriteWithOptions(sink, opts): under UsePool, Get returns a
\* buffer resting in the pool or a new one, and the buffer is put back
DoWriteWithOptions(opts, failAt) ==
    /\ feed # Nil
    /\ \E b \in (IF opts.UsePool THEN pool \cup {<<>>} ELSE {<<>>}) :
           \E r \in {WriteWithOptions(Deref(feed), opts, failAt, b)} :
               /\ ret' = [op |-> "WriteWithOptions", opts |-> opts,
                          failAt |-> failAt, got |-> b, err |-> r.err,
                          sink |-> r.sink, calls |-> r.calls]
               /\ pool' = IF opts.UsePool THEN (pool \ {b}) \cup {r.buf}
                          ELSE pool
    /\ UNCHANGED <<threads, buffers, arrays, slices, history, podcast, feed,
                   direct>>

\* str, err := feed.XMLWithOptions(opts): under UsePool its own Get comes
\* first and the Get of WriteWithOptions finds the pool without that buffer
DoXMLWithOptions(opts) ==
    /\ feed # Nil
    /\ \E b1 \in (IF opts.UsePool THEN pool \cup {<<>>} ELSE {<<>>}) :
           \E b2 \in (IF opts.UsePool THEN (pool \ {b1}) \cup {<<>>}
                      ELSE {<<>>}) :
               \E r \in {XMLWithOptions(Deref(feed), opts, b1, b2)} :
                   /\ ret' = [op |-> "XMLWithOptions", opts |-> opts,
                              got |-> b2, err |-> r.err, str |-> r.str]
                   /\ pool' = IF opts.UsePool
                              THEN ((pool \ {b1}) \ {b2})
                                   \cup {r.inner, r.outer}
                              ELSE pool
    /\ UNCHANGED <<threads, buffers, arrays, slices, history, podcast, feed,
                   direct>>

\* err := feed.StreamWrite(sink)
DoStreamWrite(failAt) ==
    /\ feed # Nil
    /\ \E r \in {StreamWrite(Deref(feed), failAt)} :
           /\ ret' = [op |-> "StreamWrite", failAt |-> failAt,
                      err |-> r.err, sink |-> r.sink, calls |-> r.calls]
           /\ feed' = Ptr(r.feed)
    /\ UNCHANGED <<threads, buffers, arrays, slices, history, podcast, pool,
                   direct>>

\* formatDuration(d), for the d the caller holds
DoFormatDuration ==
    /\ ret.op = "duration"
    /\ ret' = [op |-> "formatDuration", d |-> ret.d,
               out |-> formatDuration(ret.d)]
    /\ UNCHANGED <<threads, buffers, arrays, slices, history, podcast, feed,
                   pool, direct>>

\* err := pubDate.MarshalXML(enc, start), for the time the caller holds, on
\* a new Encoder with the start element of a pubDate field
DoMarshalPubDate ==
    /\ ret.op = "time"
    /\ ret' = [op |-> "PubDate.MarshalXML", t |-> ret.t, err |-> NoErr,
               out |-> Encode(marshalPubDate("pubDate",
                                             NewPubDate(broken(ret.t))),
                              Printer(0)).out]
    /\ UNCHANGED <<threads, buffers, arrays, slices, history, podcast, feed,
                   pool, direct>>

\* the Feed as it shows the heap h through the slice its Channel holds
Seen(f, h, s) ==
    IF f = Nil \/ s = Nil THEN f
    ELSE Ptr(WithChannel(Deref(f), "Items", ItemsOf(h, Deref(s))))

\* the heap and the slices as a call leaves them, with what the Podcast and
\* the Feed show of them
Left(c) ==
    /\ arrays' = c.arrays
    /\ slices' = c.slices
    /\ podcast' = [podcast EXCEPT !.items = ItemsOf(c.arrays, c.slices.items)]
    /\ feed' = Seen(feed, c.arrays, c.slices.feed)

\* podcast.AddItem(item)
DoAddItem(item) ==
    /\ Len(history.added) < MaxAdds
    /\ \E newcap \in GrowCaps(slices.items) :
           \E r \in {AddItem(arrays, slices.items, Ptr(item), newcap)} :
               Left(Collected(r.arrays, [slices EXCEPT !.items = r.slice]))
    /\ history' = [history EXCEPT !.added = Append(@, item)]
    /\ ret' = [op |-> "AddItem", item |-> item, len |-> slices.items.len,
               cap |-> slices.items.cap]
    /\ UNCHANGED <<threads, buffers, pool, direct>>

\* podcast.AddItemWithCapacity(item, expectedTotal)
DoAddItemWithCapacity(item, expectedTotal) ==
    /\ Len(history.added) < MaxAdds
    /\ \E newcap \in GrowCaps(slices.items) :
           \E r \in {AddItemWithCapacity(arrays, slices.items, Ptr(item),
                                         expectedTotal, newcap)} :
               Left(Collected(r.arrays, [slices EXCEPT !.items = r.slice]))
    /\ history' = [history EXCEPT !.added = Append(@, item)]
    /\ ret' = [op |-> "AddItemWithCapacity", item |-> item,
               expectedTotal |-> expectedTotal, len |-> slices.items.len,
               cap |-> slices.items.cap]
    /\ UNCHANGED <<threads, buffers, pool, direct>>

\* n := podcast.GetItemCount()
DoGetItemCount ==
    /\ ret' = [op |-> "GetItemCount", n |-> GetItemCount(slices.items)]
    /\ UNCHANGED <<threads, buffers, arrays, slices, history, podcast, feed,
                   pool, direct>>

\* items := podcast.GetItems()
DoGetItems ==
    /\ \E r \in {GetItems(arrays, slices.items)} :
           /\ Left(Collected(r.arrays,
                             [slices EXCEPT !.snapshot = Ptr(r.slice)]))
           /\ ret' = [op |-> "GetItems", out |-> Elems(r.arrays, r.slice)]
    /\ UNCHANGED <<threads, buffers, history, pool, direct>>

\* directItems := podcast.GetItemsSlice()
DoGetItemsSlice ==
    /\ \E r \in {GetItemsSlice(arrays, slices.items)} :
           /\ Left(Collected(r.arrays, [slices EXCEPT !.live = Ptr(r.slice)]))
           /\ ret' = [op |-> "GetItemsSlice",
                      out |-> Elems(r.arrays, r.slice)]
    /\ UNCHANGED <<threads, buffers, history, pool, direct>>

\* items[i] = v, on the slice GetItems returned; i counts from 1
DoSetItems(i, v) ==
    /\ slices.snapshot # Nil
    /\ history.stores < MaxStores
    /\ i \in 1..Deref(slices.snapshot).len
    /\ Left([arrays |-> store(arrays, Deref(slices.snapshot), i, v),
             slices |-> slices])
    /\ history' = [history EXCEPT !.stores = @ + 1]
    /\ ret' = [op |-> "SetItems", i |-> i, v |-> v]
    /\ UNCHANGED <<threads, buffers, pool, direct>>

\* directItems[i] = v, on the slice GetItemsSlice returned
DoSetItemsSlice(i, v) ==
    /\ slices.live # Nil
    /\ history.stores < MaxStores
    /\ i \in 1..Deref(slices.live).len
    /\ Left([arrays |-> store(arrays, Deref(slices.live), i, v),
             slices |-> slices])
    /\ history' = [history EXCEPT !.replaced = TRUE, !.stores = @ + 1]
    /\ ret' = [op |-> "SetItemsSlice", i |-> i, v |-> v]
    /\ UNCHANGED <<threads, buffers, pool, direct>>

\* the contents of the buffers resting in the pool
Resting(bs) == {bs.data[b] : b \in bs.resting}

\* the buffers Get may return: one resting in the pool, or the one New
\* makes, named next; New is not needed beyond two buffers a thread
Gettable(bs) ==
    bs.resting
    \cup (IF Len(bs.data) < 2 * MaxThreads THEN {Len(bs.data) + 1} ELSE {})

\* a Get that leaves the buffer it returns in the pool
PoolGetLeavesBuffer(bs, b) ==
    IF b > Len(bs.data)
    THEN [data |-> Append(bs.data, <<>>), resting |-> bs.resting]
    ELSE bs

\* bufferPool.Get() returning buffer b
PoolGet(bs, b) ==
    IF b > Len(bs.data)
    THEN [data |-> Append(bs.data, <<>>), resting |-> bs.resting]
    ELSE [data |-> bs.data, resting |-> bs.resting \ {b}]

\* bufferPool.Put(b)
PoolPut(bs, b) == [data |-> bs.data, resting |-> bs.resting \cup {b}]

\* buffer b with the bytes of data written after what it holds
BufferWrite(bs, b, data) ==
    [bs EXCEPT !.data[b] = @ \o data]

\* buffer b emptied
BufferReset(bs, b) == [bs EXCEPT !.data[b] = Reset(@)]

\* a thread that is in no call
Idle(calls) ==
    [pc |-> "idle", op |-> "none", feed |-> Nil, outer |-> 0, inner |-> 0,
     sink |-> <<>>, str |-> <<>>, err |-> NoErr, calls |-> calls,
     failAt |-> 0, gets |-> 0, puts |-> 0]

\* the buffers after a step, and the pool as they show it
BuffersLeft(bs) ==
    /\ buffers' = bs
    /\ pool' = Resting(bs)

\* thread t calls op on the Feed f with UsePool; the sink of a
\* WriteWithOptions call fails at its write failAt, 0 for a sink that takes
\* every write, and the writer of XMLWithOptions is its own buffer
ThreadCall(t, op, f, failAt) ==
    /\ threads[t].pc = "idle"
    /\ threads[t].calls < MaxCalls
    /\ op = "XMLWithOptions" => failAt = 0
    /\ threads' = [threads EXCEPT ![t] =
                      [@ EXCEPT !.pc = IF op = "XMLWithOptions" THEN "xget"
                                       ELSE "get",
                                !.op = op, !.feed = Ptr(f),
                                !.failAt = failAt]]
    /\ UNCHANGED <<buffers, podcast, feed, pool, ret, direct, arrays, slices,
                   history>>

\* buf = bufferPool.Get().(*bytes.Buffer), in XMLWithOptions and in
\* WriteWithOptions
ThreadGet(t, b) ==
    /\ threads[t].pc \in {"xget", "get"}
    /\ b \in Gettable(buffers)
    /\ BuffersLeft(PoolGet(buffers, b))
    /\ threads' = [threads EXCEPT ![t] =
                      IF @.pc = "xget"
                      THEN [@ EXCEPT !.pc = "xreset", !.outer = b,
                                     !.gets = @ + 1]
                      ELSE [@ EXCEPT !.pc = "reset", !.inner = b,
                                     !.gets = @ + 1]]
    /\ UNCHANGED <<podcast, feed, ret, direct, arrays, slices, history>>

\* buf.Reset()
ThreadReset(t) ==
    /\ threads[t].pc \in {"xreset", "reset"}
    /\ BuffersLeft(BufferReset(buffers,
                               IF threads[t].pc = "xreset"
                               THEN threads[t].outer ELSE threads[t].inner))
    /\ threads' = [threads EXCEPT ![t].pc =
                      IF @ = "xreset" THEN "get" ELSE "header"]
    /\ UNCHANGED <<podcast, feed, ret, direct, arrays, slices, history>>

\* finalWriter.Write([]byte(xml.Header))
ThreadHeader(t) ==
    /\ threads[t].pc = "header"
    /\ BuffersLeft(BufferWrite(buffers, threads[t].inner, xmlHeader))
    /\ threads' = [threads EXCEPT ![t].pc = "encode"]
    /\ UNCHANGED <<podcast, feed, ret, direct, arrays, slices, history>>

\* enc.Encode(f)
ThreadEncode(t) ==
    /\ threads[t].pc = "encode"
    /\ BuffersLeft(BufferWrite(buffers, threads[t].inner,
                               Encode(marshalFeed(Deref(threads[t].feed)),
                                      Printer(0)).out))
    /\ threads' = [threads EXCEPT ![t].pc = "writeTo"]
    /\ UNCHANGED <<podcast, feed, ret, direct, arrays, slices, history>>

\* a WriteWithOptions whose Put is not deferred: the return of a failed
\* WriteTo leaves without it
afterWriteToNoDefer(err) == IF err # NoErr THEN "done" ELSE "put"

\* where WriteWithOptions goes after buf.WriteTo(writer): both returns run
\* the deferred bufferPool.Put(buf)
afterWriteTo(err) == "put"

\* buf.WriteTo(writer): the writer is the caller's sink, or the buffer of
\* XMLWithOptions
ThreadWriteTo(t) ==
    /\ threads[t].pc = "writeTo"
    /\ \E w \in {WriteTo(buffers.data[threads[t].inner],
                         threads[t].failAt)} :
           /\ BuffersLeft(
                  IF threads[t].op = "XMLWithOptions"
                  THEN BufferWrite([buffers EXCEPT
                                       !.data[threads[t].inner] = w.buf],
                                   threads[t].outer, Flat(w.sink, 1))
                  ELSE [buffers EXCEPT !.data[threads[t].inner] = w.buf])
           /\ threads' = [threads EXCEPT ![t] =
                             [@ EXCEPT !.pc = afterWriteTo(w.err),
                                       !.err = w.err,
                                       !.sink =
                                           IF threads[t].op = "XMLWithOptions"
                                           THEN <<>> ELSE w.sink]]
    /\ UNCHANGED <<podcast, feed, ret, direct, arrays, slices, history>>

\* the deferred bufferPool.Put(buf) of WriteWithOptions
ThreadPut(t) ==
    /\ threads[t].pc = "put"
    /\ BuffersLeft(PoolPut(buffers, threads[t].inner))
    /\ threads' = [threads EXCEPT ![t] =
                      [@ EXCEPT !.pc = IF threads[t].op = "XMLWithOptions"
                                       THEN "string" ELSE "done",
                                !.inner = 0, !.puts = @ + 1]]
    /\ UNCHANGED <<podcast, feed, ret, direct, arrays, slices, history>>

\* return "", err or return buf.String(), nil, with the deferred
\* bufferPool.Put(buf) of XMLWithOptions after it
ThreadString(t) ==
    /\ threads[t].pc = "string"
    /\ BuffersLeft(PoolPut(buffers, threads[t].outer))
    /\ threads' = [threads EXCEPT ![t] =
                      [@ EXCEPT !.pc = "done",
                                !.str = IF threads[t].err # NoErr THEN <<>>
                                        ELSE buffers.data[threads[t].outer],
                                !.outer = 0, !.puts = @ + 1]]
    /\ UNCHANGED <<podcast, feed, ret, direct, arrays, slices, history>>

\* the caller takes what the call returned
ThreadReturn(t) ==
    /\ threads[t].pc = "done"
    /\ threads' = [threads EXCEPT ![t] = Idle(@.calls + 1)]
    /\ UNCHANGED <<buffers, podcast, feed, pool, ret, direct, arrays, slices,
                   history>>

Next ==
    \/ \E options \in OptionLists : DoFeed(options)
    \/ \E options \in OptionLists : DoSetOptions(options)

Spec == Init /\ [][Next]_vars

\* one Podcast, and every option on its own: called on the Feed, or passed
\* alone to Podcast.Feed
InitOption ==
    /\ podcast = Podcast(<<"T">>, <<"D">>, <<"L">>, <<"en">>, <<"C">>, <<>>)
    /\ feed = Nil
    /\ pool = {}
    /\ ret = NoCall
    /\ direct = 0
    /\ arrays = <<>>
    /\ slices = NoSlices
    /\ history = NoHistory
    /\ threads = NoThreads
    /\ buffers = NoBuffers

NextOption ==
    \/ \E opt \in Options : DoFeed(<<opt>>)
    \/ \E opt \in Options : DoOption(opt)

SpecOption == InitOption /\ [][NextOption]_vars

\* a Feed of the inputs, and the calls that write it to a sink or a string
InitSer ==
    /\ podcast = Podcast(<<>>, <<>>, <<>>, <<>>, <<>>, <<>>)
    /\ feed \in {Ptr(f) : f \in Feeds}
    /\ pool = {}
    /\ ret = NoCall
    /\ direct = 0
    /\ arrays = <<>>
    /\ slices = NoSlices
    /\ history = NoHistory
    /\ threads = NoThreads
    /\ buffers = NoBuffers

NextSer ==
    \/ \E failAt \in WriteFailures : DoWrite(failAt)
    \/ DoXML
    \/ \E failAt \in StreamFailures : DoStreamWrite(failAt)

SpecSer == InitSer /\ [][NextSer]_vars

\* a Feed of the pool's inputs, and every serialization call on it, those
\* that borrow from the buffer pool included
InitPool ==
    /\ podcast = Podcast(<<>>, <<>>, <<>>, <<>>, <<>>, <<>>)
    /\ feed \in {Ptr(f) : f \in PoolFeeds}
    /\ pool = {}
    /\ ret = NoCall
    /\ direct = 0
    /\ arrays = <<>>
    /\ slices = NoSlices
    /\ history = NoHistory
    /\ threads = NoThreads
    /\ buffers = NoBuffers

NextPool ==
    \/ \E failAt \in WriteFailures : DoWrite(failAt)
    \/ DoXML
    \/ \E opts \in WriteOptionsSet : \E failAt \in WriteFailures :
           DoWriteWithOptions(opts, failAt)
    \/ \E opts \in WriteOptionsSet : DoXMLWithOptions(opts)
    \/ \E failAt \in StreamFailures : DoStreamWrite(failAt)

SpecPool == InitPool /\ [][NextPool]_vars

\* a duration of the inputs, formatted
InitDuration ==
    /\ podcast = Podcast(<<>>, <<>>, <<>>, <<>>, <<>>, <<>>)
    /\ feed = Nil
    /\ pool = {}
    /\ ret \in {[op |-> "duration", d |-> d] : d \in Durations}
    /\ direct = 0
    /\ arrays = <<>>
    /\ slices = NoSlices
    /\ history = NoHistory
    /\ threads = NoThreads
    /\ buffers = NoBuffers

NextDuration == DoFormatDuration

SpecDuration == InitDuration /\ [][NextDuration]_vars

\* an instant of the inputs, marshalled as a PubDate
InitDate ==
    /\ podcast = Podcast(<<>>, <<>>, <<>>, <<>>, <<>>, <<>>)
    /\ feed = Nil
    /\ pool = {}
    /\ ret \in {[op |-> "time", t |-> t] : t \in Instants}
    /\ direct = 0
    /\ arrays = <<>>
    /\ slices = NoSlices
    /\ history = NoHistory
    /\ threads = NoThreads
    /\ buffers = NoBuffers

NextDate == DoMarshalPubDate

SpecDate == InitDate /\ [][NextDate]_vars

\* a Podcast without items, and every call on its items: appends, the
\* accessors, writes through the slices they returned, and Podcast.Feed
InitItems ==
    /\ podcast = Podcast(<<"T">>, <<"D">>, <<"L">>, <<"en">>, <<"C">>, <<>>)
    /\ feed = Nil
    /\ pool = {}
    /\ ret = NoCall
    /\ direct = 0
    /\ arrays = <<>>
    /\ slices = NoSlices
    /\ history = NoHistory
    /\ threads = NoThreads
    /\ buffers = NoBuffers

NextItems ==
    \/ \E item \in {ItemAt(Len(history.added) + 1)} : DoAddItem(item)
    \/ \E item \in {ItemAt(Len(history.added) + 1)} :
           \E expectedTotal \in Hints :
               DoAddItemWithCapacity(item, expectedTotal)
    \/ DoGetItemCount
    \/ DoGetItems
    \/ DoGetItemsSlice
    \/ \E i \in 1..MaxAdds : \E v \in {Nil, Ptr(OtherItem)} : DoSetItems(i, v)
    \/ \E i \in 1..MaxAdds : DoSetItemsSlice(i, Ptr(OtherItem))
    \/ DoFeed(<<>>)

SpecItems == InitItems /\ [][NextItems]_vars

\* a Podcast without items, appends to it, Podcast.Feed, and the Feed
\* written to a sink that takes every write
InitFeedItems ==
    /\ podcast = Podcast(<<"T">>, <<"D">>, <<"L">>, <<"en">>, <<"C">>, <<>>)
    /\ feed = Nil
    /\ pool = {}
    /\ ret = NoCall
    /\ direct = 0
    /\ arrays = <<>>
    /\ slices = NoSlices
    /\ history = NoHistory
    /\ threads = NoThreads
    /\ buffers = NoBuffers

NextFeedItems ==
    \/ \E item \in {ItemAt(Len(history.added) + 1)} : DoAddItem(item)
    \/ \E item \in {ItemAt(Len(history.added) + 1)} :
           \E expectedTotal \in Hints :
               DoAddItemWithCapacity(item, expectedTotal)
    \/ DoFeed(<<>>)
    \/ DoWrite(0)
    \/ \E opts \in WriteOptionsSet : DoWriteWithOptions(opts, 0)
    \/ DoStreamWrite(0)

SpecFeedItems == InitFeedItems /\ [][NextFeedItems]_vars

\* a Feed of the sinks' inputs, and every serialization call on it with
\* every sink
InitSink ==
    /\ podcast = Podcast(<<>>, <<>>, <<>>, <<>>, <<>>, <<>>)
    /\ feed \in {Ptr(f) : f \in SinkFeeds}
    /\ pool = {}
    /\ ret = NoCall
    /\ direct = 0
    /\ arrays = <<>>
    /\ slices = NoSlices
    /\ history = NoHistory
    /\ threads = NoThreads
    /\ buffers = NoBuffers

NextSink ==
    \/ \E failAt \in SinkFailures(Write(Deref(feed), 0).calls) :
           DoWrite(failAt)
    \/ DoXML
    \/ \E opts \in WriteOptionsSet :
           \E failAt \in SinkFailures(Write(Deref(feed), 0).calls) :
               DoWriteWithOptions(opts, failAt)
    \/ \E opts \in WriteOptionsSet : DoXMLWithOptions(opts)
    \/ \E failAt \in SinkFailures(StreamWrite(Deref(feed), 0).calls) :
           DoStreamWrite(failAt)

SpecSink == InitSink /\ [][NextSink]_vars

\* threads that call WriteWithOptions and XMLWithOptions with UsePool, each
\* call on a sink of its own, their steps interleaved
InitThreads ==
    /\ podcast = Podcast(<<>>, <<>>, <<>>, <<>>, <<>>, <<>>)
    /\ feed = Nil
    /\ pool = {}
    /\ ret = NoCall
    /\ direct = 0
    /\ arrays = <<>>
    /\ slices = NoSlices
    /\ history = NoHistory
    /\ threads = [t \in ThreadIds |-> Idle(0)]
    /\ buffers = NoBuffers

NextThreads ==
    \E t \in ThreadIds :
        \/ \E op \in {"WriteWithOptions", "XMLWithOptions"} :
               \E f \in ThreadFeeds : ThreadCall(t, op, f, 0)
        \/ \E b \in 1..(2 * MaxThreads) : ThreadGet(t, b)
        \/ ThreadReset(t)
        \/ ThreadHeader(t)
        \/ ThreadEncode(t)
        \/ ThreadWriteTo(t)
        \/ ThreadPut(t)
        \/ ThreadString(t)
        \/ ThreadReturn(t)

SpecThreads == InitThreads /\ [][NextThreads]_vars

\* a Podcast, appends to it, two Feeds built from it with options, and
\* options set on the first of them, in lists and one by one
NextFeeds ==
    \/ \E item \in {ItemAt(Len(history.added) + 1)} : DoAddItem(item)
    \/ \E options \in BuiltOptionLists : DoFeed(options)
    \/ \E options \in BuiltOptionLists : DoFeedOther(options)
    \/ \E options \in BuiltOptionLists : DoSetOptions(options)
    \/ \E opt \in Options : DoOption(opt)

SpecFeeds == InitFeedItems /\ [][NextFeeds]_vars

\* the same threads on one Feed, the sink of a WriteWithOptions call taking
\* every write or failing at the first
NextBorrow ==
    \E t \in ThreadIds :
        \/ \E op \in {"WriteWithOptions", "XMLWithOptions"} :
               \E failAt \in 0..1 :
                   ThreadCall(t, op,
                              Feed(itunesXMLNS, contentXMLNS, rssVersion,
                                   Ptr(MetadataBasic)),
                              failAt)
        \/ \E b \in 1..(2 * MaxThreads) : ThreadGet(t, b)
        \/ ThreadReset(t)
        \/ ThreadHeader(t)
        \/ ThreadEncode(t)
        \/ ThreadWriteTo(t)
        \/ ThreadPut(t)
        \/ ThreadString(t)
        \/ ThreadReturn(t)

SpecBorrow == InitThreads /\ [][NextBorrow]_vars

\* a Podcast of the inputs, Podcast.Feed with options, and every
\* serialization call on the Feed it returned, to a sink that takes every
\* write
InitBuilt ==
    /\ podcast \in PodcastSet
    /\ feed = Nil
    /\ pool = {}
    /\ ret = NoCall
    /\ direct = 0
    /\ arrays = <<>>
    /\ slices = NoSlices
    /\ history = NoHistory
    /\ threads = NoThreads
    /\ buffers = NoBuffers

NextBuilt ==
    \/ \E options \in BuiltOptionLists : DoFeed(options)
    \/ DoWrite(0)
    \/ DoXML
    \/ \E opts \in BuiltWriteOptions : DoWriteWithOptions(opts, 0)
    \/ \E opts \in BuiltWriteOptions : DoXMLWithOptions(opts)
    \/ DoStreamWrite(0)

SpecBuilt == InitBuilt /\ [][NextBuilt]_vars

(***************************************************************************)
(* Properties of the options and of building a Feed.                       *)
(***************************************************************************)
\* whether the option fails, and with which error, read off its argument
OptFails(opt) ==
    \/ opt.name = "errorOption"
    \/ opt.name \in {"NewFeedURL", "Image"} /\ URLKind(opt.a) # "absolute"

OptError(opt) ==
    IF ~OptFails(opt) THEN NoErr
    ELSE IF opt.name = "Image" THEN ErrInvalidImage ELSE ErrInvalidURL

\* the position of the first failing option of the list, Len+1 when none fails
FirstFailing(options) ==
    IF \E i \in 1..Len(options) : OptFails(options[i])
    THEN CHOOSE i \in 1..Len(options) :
             OptFails(options[i]) /\ \A j \in 1..(i - 1) : ~OptFails(options[j])
    ELSE Len(options) + 1

\* the Channel field the option writes, and the value it writes there
OptField(opt) == IF opt.name = "errorOption" THEN "none" ELSE opt.name

OptValue(opt) ==
    CASE opt.name \in {"Author", "NewFeedURL", "Subtitle"} -> opt.a
      [] opt.name \in {"Block", "Explicit", "Complete"} -> <<"yes">>
      [] opt.name = "Summary" -> <<[Value |-> opt.a]>>
      [] opt.name = "Owner" -> <<[Name |-> opt.a, Email |-> opt.b]>>
      [] opt.name = "Image" -> <<[Href |-> opt.a]>>

\* what field fld holds after the first n options of the list, each writing
\* its own field, were applied in order to a Channel that held v
RECURSIVE LastWritten(_, _, _, _)
LastWritten(options, n, fld, v) ==
    IF n = 0 THEN v
    ELSE IF OptField(options[n]) = fld THEN OptValue(options[n])
    ELSE LastWritten(options, n - 1, fld, v)

\* the Channel a freshly built Feed starts from
FreshChannel ==
    Channel(podcast.Title, podcast.Description, podcast.Link,
            podcast.Copyright, podcast.Language, podcast.items)

\* C1: when an option passed to Podcast.Feed returns an error, Feed returns
\* that error and a nil Feed, so that no partly configured Feed is observed.
C1_FeedErrorReturnsNoFeed ==
    (ret.op = "Feed" /\ FirstFailing(ret.options) <= Len(ret.options))
        => (ret.err = OptError(ret.options[FirstFailing(ret.options)])
            /\ ret.out = Nil)

\* C2: SetOptions invokes the options in the order supplied, stops at the
\* first one that fails and returns exactly its error, invokes none after
\* it, and returns nil with every option applied, the later one winning on a
\* field, when none fails.
C2_SetOptionsInOrderUntilFirstError ==
    ret.op = "SetOptions" =>
        LET k == FirstFailing(ret.options)
            n == Len(ret.options)
            done == IF k <= n THEN k - 1 ELSE n
            before == Deref(ret.pre).Channel[1]
            after == Deref(feed).Channel[1]
        IN  /\ Len(ret.log) = (IF k <= n THEN k ELSE n)
            /\ \A i \in 1..Len(ret.log) : ret.log[i].opt = ret.options[i]
            /\ ret.err = (IF k <= n THEN OptError(ret.options[k]) ELSE NoErr)
            /\ \A fld \in ChannelFields :
                   after[fld] = LastWritten(ret.options, done, fld, before[fld])

C2_Witness ==
    /\ ret.op = "SetOptions"
    /\ ret.options = <<Opt("Image", <<"a">>, <<>>), Opt("Subtitle", <<"S">>, <<>>)>>
    /\ ret.err = ErrInvalidImage
    /\ Len(ret.log) = 1
    /\ Deref(ret.pre).Channel[1].Author = <<"B">>
    /\ Deref(feed).Channel[1].Author = <<"B">>
    /\ Deref(feed).Channel[1].Subtitle = <<>>

\* C3: NewFeedURL(u) and Image(u) return an error whenever u is not an
\* absolute URL and then leave the whole Feed, the targeted field included,
\* as it was; for an absolute u they return nil and the targeted field is u.
C3_URLOptionsValidateBeforeWriting ==
    (ret.op = "Option" /\ ret.options[1].name \in {"NewFeedURL", "Image"}) =>
        LET opt == ret.options[1]
            after == Deref(feed).Channel[1]
        IN  IF URLKind(opt.a) # "absolute"
            THEN ret.err # NoErr /\ feed = ret.pre
            ELSE /\ ret.err = NoErr
                 /\ opt.name = "NewFeedURL" => after.NewFeedURL = opt.a
                 /\ opt.name = "Image" => after.Image = <<[Href |-> opt.a]>>

C3_Witness ==
    /\ ret.op = "Option"
    /\ ret.options[1] = Opt("Image", <<"a", ":", "/", "/">>, <<>>)
    /\ ret.err # NoErr
    /\ Deref(ret.pre).Channel[1].Image = <<[Href |-> GoodURL]>>
    /\ Deref(feed).Channel[1].Image = <<[Href |-> GoodURL]>>

\* C4: every rejection by NewFeedURL is ErrInvalidURL and every rejection by
\* Image is ErrInvalidImage, never the other kind, called on the Feed or
\* passed to Podcast.Feed, which returns that same error.
C4_DistinctErrorKinds ==
    (ret.op \in {"Option", "Feed"}
        /\ ret.options[1].name \in {"NewFeedURL", "Image"}
        /\ URLKind(ret.options[1].a) # "absolute") =>
            /\ ret.options[1].name = "NewFeedURL" => ret.err = ErrInvalidURL
            /\ ret.options[1].name = "Image" => ret.err = ErrInvalidImage
            /\ ErrInvalidURL # ErrInvalidImage

C4_Witness ==
    /\ ret.op = "Feed"
    /\ ret.options = <<Opt("Image", <<"a", "/", "a">>, <<>>)>>
    /\ ret.err = ErrInvalidImage

\* C5: a built-in option that succeeds sets its own Channel field to the
\* value it was built with ("yes" for Block, Explicit and Complete, name and
\* email for Owner) and leaves every other Channel field, the root
\* attributes and the items as they were.
C5_OptionWritesOnlyItsField ==
    (ret.op = "Option" /\ ret.err = NoErr) =>
        LET opt == ret.options[1]
            before == Deref(ret.pre)
            after == Deref(feed)
        IN  /\ after.Channel[1][OptField(opt)] = OptValue(opt)
            /\ \A fld \in ChannelFields \ {OptField(opt)} :
                   after.Channel[1][fld] = before.Channel[1][fld]
            /\ after.ItunesXMLNS = before.ItunesXMLNS
            /\ after.ContentXMLNS = before.ContentXMLNS
            /\ after.Version = before.Version

C5_Witness ==
    /\ ret.op = "Option"
    /\ ret.options[1] = Opt("Owner", <<"N">>, <<"E">>)
    /\ ret.err = NoErr
    /\ Deref(feed).Channel[1].Owner = <<[Name |-> <<"N">>, Email |-> <<"E">>]>>
    /\ Deref(ret.pre).Channel[1].Author = <<"A">>
    /\ Deref(feed).Channel[1].Author = <<"A">>

(***************************************************************************)
(* Properties of the serialization strategies and of the formatters.       *)
(***************************************************************************)
\* the document a call left in its sink, or returned as a string
Delivered(r) ==
    IF r.op \in {"XML", "XMLWithOptions"} THEN r.str ELSE Flat(r.sink, 1)

\* a lexeme that is not whitespace
IsMarkup(l) == l.k \notin {"nl", "indent"}

\* the elements opened in lexemes lo..hi of a document, each with its name
\* and its depth, depth being the depth before lo; and the depth after hi
RECURSIVE OutlineOf(_, _, _, _)
OutlineOf(doc, lo, hi, depth) ==
    IF lo > hi THEN [o |-> <<>>, depth |-> depth]
    ELSE IF lo = hi
      THEN [o |-> IF doc[lo].k = "open"
                  THEN <<[d |-> depth, n |-> doc[lo].s]>> ELSE <<>>,
            depth |-> CASE doc[lo].k = "open" -> depth + 1
                        [] doc[lo].k = "close" -> depth - 1
                        [] OTHER -> depth]
    ELSE LET l == OutlineOf(doc, lo, (lo + hi) \div 2, depth)
             r == OutlineOf(doc, (lo + hi) \div 2 + 1, hi, l.depth)
         IN  [o |-> l.o \o r.o, depth |-> r.depth]

Outline(doc) == OutlineOf(doc, 1, Len(doc), 0).o

Names(o) == [i \in 1..Len(o) |-> o[i].n]

IsChannelChild(e) == e.d = 2

IsItemChild(e) == e.d = 3

\* the names of the children of the channel element, in document order
ChannelChildren(doc) == Names(SelectSeq(Outline(doc), IsChannelChild))

\* the positions of the item elements in an outline, the k-th of them, and
\* the names of the children of the item at position i
ItemPositions(o) == {i \in 1..Len(o) : o[i].d = 2 /\ o[i].n = "item"}

KthItem(o, k) ==
    CHOOSE i \in ItemPositions(o) :
        Cardinality({j \in ItemPositions(o) : j < i}) = k - 1

ItemEnd(o, i) ==
    IF \E j \in (i + 1)..Len(o) : o[j].d <= 2
    THEN CHOOSE j \in (i + 1)..Len(o) :
             o[j].d <= 2 /\ \A h \in (i + 1)..(j - 1) : o[h].d > 2
    ELSE Len(o) + 1

ItemChildren(o, i) ==
    Names(SelectSeq(SubSeq(o, i + 1, ItemEnd(o, i) - 1), IsItemChild))

\* the place of a name in an order, and names that follow an order strictly
Rank(name, order) == CHOOSE i \in 1..Len(order) : order[i] = name

FollowsOrder(names, order) ==
    /\ \A i \in 1..Len(names) : names[i] \in Range(order)
    /\ \A i \in 1..(Len(names) - 1) :
           Rank(names[i], order) < Rank(names[i + 1], order)

\* the same, where a name may repeat
FollowsOrderRepeating(names, order) ==
    /\ \A i \in 1..Len(names) : names[i] \in Range(order)
    /\ \A i \in 1..(Len(names) - 1) :
           Rank(names[i], order) <= Rank(names[i + 1], order)

Opt1(present, name) == IF present THEN <<name>> ELSE <<>>

\* C6: for every Feed, StreamWrite emits the document Write emits: the same
\* elements, attribute values and text in the same order, the same empty
\* fields left out, categories and items in the same relative position; the
\* two outputs differ in whitespace only.
C6_StreamWriteEmitsWhatWriteEmits ==
    (ret.op = "StreamWrite" /\ ret.err = NoErr) =>
        SelectSeq(Flat(ret.sink, 1), IsMarkup)
            = SelectSeq(Flat(Write(Deref(feed), 0).sink, 1), IsMarkup)

\* C7: for every Feed and every WriteOptions, UsePool set or not with a
\* negative, zero or positive BufferSize, WriteWithOptions delivers to a
\* sink that takes its writes the bytes Write delivers to such a sink, and
\* XMLWithOptions returns the string and the error XML returns, whatever
\* the buffers borrowed from the pool held.
C7_OptionsDoNotChangeTheBytes ==
    /\ (ret.op = "WriteWithOptions" /\ ret.err = NoErr) =>
           Flat(ret.sink, 1) = Flat(Write(Deref(feed), 0).sink, 1)
    /\ ret.op = "XMLWithOptions" =>
           /\ ret.err = XML(Deref(feed)).err
           /\ ret.str = XML(Deref(feed)).str

C7_Witness ==
    /\ ret.op = "WriteWithOptions"
    /\ ret.opts.UsePool
    /\ ret.opts.BufferSize < 0
    /\ ret.got # <<>>
    /\ ret.err = NoErr
    /\ Len(Deref(Deref(feed).Channel).Items) = 1
    /\ Flat(ret.sink, 1) = XML(Deref(feed)).str

\* the children of the channel element as Write emits them for Channel c
WriteChannelChildren(c) ==
    <<"title", "link", "copyright", "language", "description">>
    \o Opt1(c.Author # <<>>, "itunes:author")
    \o Opt1(c.Block # <<>>, "itunes:block")
    \o Opt1(c.Explicit # <<>>, "itunes:explicit")
    \o Opt1(c.Complete # <<>>, "itunes:complete")
    \o Opt1(c.NewFeedURL # <<>>, "itunes:new-feed-url")
    \o Opt1(c.Subtitle # <<>>, "itunes:subtitle")
    \o Opt1(c.Summary # Nil, "itunes:summary")
    \o Opt1(c.Owner # Nil, "itunes:owner")
    \o Opt1(c.Image # Nil, "itunes:image")
    \o [i \in 1..Len(c.Items) |-> "item"]
    \o [i \in 1..Len(c.Categories) |-> "itunes:category"]

\* the order of the channel's children with description ahead of language
\* and copyright, and the categories ahead of the items
CategoriesThenItemsOrder ==
    <<"title", "link", "description", "language", "copyright",
      "itunes:author", "itunes:block", "itunes:explicit", "itunes:complete",
      "itunes:new-feed-url", "itunes:subtitle", "itunes:summary",
      "itunes:owner", "itunes:image", "itunes:category", "item">>

\* C8: Write and XML emit the children of the channel element in this
\* order: title, link, copyright, language and description, each of them
\* even when empty; then, leaving out the empty and the nil ones,
\* itunes:author, itunes:block, itunes:explicit, itunes:complete,
\* itunes:new-feed-url, itunes:subtitle, itunes:summary, itunes:owner and
\* itunes:image; then all item elements; then all itunes:category elements.
C8_WriteEmitsChannelInFieldOrder ==
    (ret.op \in {"Write", "XML"} /\ ret.err = NoErr
        /\ Deref(feed).Channel # Nil) =>
            ChannelChildren(Delivered(ret))
                = WriteChannelChildren(Deref(Deref(feed).Channel))

C8_Witness ==
    /\ ret.op = "Write"
    /\ ret.err = NoErr
    /\ Deref(feed).Channel # Nil
    /\ Deref(Deref(feed).Channel).Copyright # <<>>
    /\ Deref(Deref(feed).Channel).Owner # Nil
    /\ Len(Deref(Deref(feed).Channel).Items) >= 2
    /\ Len(Deref(Deref(feed).Channel).Categories) >= 1
    /\ \E i \in 1..Len(ChannelChildren(Delivered(ret))) :
           /\ ChannelChildren(Delivered(ret))[i] = "item"
           /\ ChannelChildren(Delivered(ret))[i + 1] = "itunes:category"

\* C8 as first stated: Write and XML emit the children of the channel
\* element in the order title, link, description, language, copyright,
\* author to image, all categories, then all items.
C8_WriteEmitsCategoriesThenItems ==
    (ret.op \in {"Write", "XML"} /\ ret.err = NoErr
        /\ Deref(feed).Channel # Nil) =>
            FollowsOrderRepeating(ChannelChildren(Delivered(ret)),
                                  CategoriesThenItemsOrder)

\* the order of an item's children
ItemOrder ==
    <<"title", "guid", "pubDate", "description", "content:encoded",
      "itunes:author", "itunes:block", "itunes:duration", "itunes:explicit",
      "itunes:isClosedCaptioned", "itunes:order", "itunes:subtitle",
      "itunes:summary", "enclosure", "itunes:image">>

\* the fields of an Item behind these children, in the same order
ItemFields ==
    <<"Title", "GUID", "PubDate", "Description", "ContentEncoded", "Author",
      "Block", "Duration", "Explicit", "ClosedCaptioned", "Order",
      "Subtitle", "Summary", "Enclosure", "Image">>

\* the field holds a value: a text that is not empty, a pointer that is not
\* nil, an order that is not zero
IsSet(it, fld) == IF fld = "Order" THEN it.Order # 0 ELSE it[fld] # <<>>

\* C9: in every strategy, the children of each item element follow the
\* order title, guid, pubDate, description, content:encoded, itunes:author,
\* itunes:block, itunes:duration, itunes:explicit, itunes:isClosedCaptioned,
\* itunes:order, itunes:subtitle, itunes:summary, enclosure, itunes:image:
\* every field that is set has its element, at its place and once, a nil
\* pointer and an empty optional field have none, and an item without
\* Enclosure has no enclosure element.
C9_ItemChildrenInFieldOrder ==
    (ret.op \in {"Write", "XML", "WriteWithOptions", "XMLWithOptions",
                 "StreamWrite"} /\ ret.err = NoErr) =>
        LET o == Outline(Delivered(ret))
            items == Deref(Deref(feed).Channel).Items
        IN  /\ Cardinality(ItemPositions(o)) = Len(items)
            /\ \A k \in 1..Len(items) :
                   LET names == ItemChildren(o, KthItem(o, k))
                   IN  /\ FollowsOrder(names, ItemOrder)
                       /\ \A j \in 1..Len(ItemFields) :
                              IsSet(items[k], ItemFields[j])
                                  => ItemOrder[j] \in Range(names)
                       /\ \A j \in 3..Len(ItemFields) :
                              ~IsSet(items[k], ItemFields[j])
                                  => ItemOrder[j] \notin Range(names)
                       /\ items[k].Enclosure = Nil
                              => "enclosure" \notin Range(names)

C9_Witness ==
    /\ ret.op = "StreamWrite"
    /\ ret.err = NoErr
    /\ Len(Deref(Deref(feed).Channel).Items) = 2
    /\ Deref(Deref(feed).Channel).Items[1].Enclosure # Nil
    /\ Deref(Deref(feed).Channel).Items[1].Image # Nil
    /\ Deref(Deref(feed).Channel).Items[2].Enclosure = Nil
    /\ ItemChildren(Outline(Delivered(ret)),
                    KthItem(Outline(Delivered(ret)), 2))
           = <<"title", "guid", "pubDate", "itunes:duration",
               "itunes:subtitle", "itunes:summary", "itunes:image">>

\* the text of s >= 0 whole seconds: M:SS below an hour, H:MM:SS from it on
HoursMinutesSeconds(s) ==
    IF s < 3600
    THEN Digits(s \div 60) \o <<":">> \o Pad2(s % 60)
    ELSE Digits(s \div 3600) \o <<":">> \o Pad2((s % 3600) \div 60)
         \o <<":">> \o Pad2(s % 60)

\* C10: for every duration of s >= 0 whole seconds, the fraction cut off,
\* formatDuration returns M:SS for s < 3600 and H:MM:SS for s >= 3600, the
\* leading number without leading zero and the others with two digits.
C10_FormatDurationOfWholeSeconds ==
    (ret.op = "formatDuration" /\ ret.d.sec >= 0 /\ ret.d.nsec >= 0) =>
        ret.out = HoursMinutesSeconds(ret.d.sec)

(***************************************************************************)
(* Properties of the Podcast's items.                                      *)
(***************************************************************************)
\* the cells that point to the items of a sequence, in its order
Pointers(items) == [i \in 1..Len(items) |-> Ptr(items[i])]

\* C11: after any sequence of AddItem and AddItemWithCapacity calls,
\* GetItemCount returns the number of calls made, and GetItems and
\* GetItemsSlice return the appended items in call order, none lost,
\* duplicated or moved (the caller not having written through a slice).
C11_ItemsAreTheAppendedOnesInOrder ==
    /\ ret.op = "GetItemCount" => ret.n = Len(history.added)
    /\ (ret.op \in {"GetItems", "GetItemsSlice"} /\ ~history.replaced) =>
           ret.out = Pointers(history.added)
    /\ ~history.replaced => podcast.items = history.added

C11_Witness ==
    /\ ret.op = "GetItems"
    /\ Len(history.added) = MaxAdds
    /\ ret.out = Pointers([i \in 1..MaxAdds |-> ItemAt(i)])
    /\ slices.items.cap > slices.items.len

\* the items the Podcast shows after AddItem(item) on the heap h
AfterAddItem(h, items, item, newcap) ==
    ItemsOf(AddItem(h, items, Ptr(item), newcap).arrays,
            AddItem(h, items, Ptr(item), newcap).slice)

\* C12: AddItemWithCapacity(item, hint) leaves the item sequence and the
\* count AddItem(item) leaves, for every hint, negative, zero, below the
\* length and above the capacity; the items appended before stay in place.
C12_CapacityHintAppendsAsAddItem ==
    [][ret'.op = "AddItemWithCapacity" =>
          /\ \A newcap \in GrowCaps(slices.items) :
                 podcast'.items
                     = AfterAddItem(arrays, slices.items, ret'.item, newcap)
          /\ GetItemCount(slices'.items) = GetItemCount(slices.items) + 1
          /\ SubSeq(Elems(arrays', slices'.items), 1, slices.items.len)
                 = Elems(arrays, slices.items)]_vars

C12_Witness ==
    /\ ret.op = "AddItemWithCapacity"
    /\ ret.expectedTotal > ret.cap
    /\ ret.len = 1
    /\ ret.cap = 1
    /\ podcast.items = [i \in 1..2 |-> ItemAt(i)]
    /\ slices.items.cap = ret.expectedTotal

\* C13: writing or clearing a position of the slice GetItems returned
\* changes nothing of what the Podcast, its accessors and a Feed built from
\* it show, and appending to the Podcast changes nothing of the slice
\* GetItems returned before.
C13_GetItemsIsASnapshot ==
    [][/\ ret'.op = "SetItems" =>
              /\ podcast' = podcast
              /\ feed' = feed
              /\ GetItemCount(slices'.items) = GetItemCount(slices.items)
              /\ Elems(arrays', slices'.items) = Elems(arrays, slices.items)
       /\ (ret'.op \in {"AddItem", "AddItemWithCapacity"}
           /\ slices.snapshot # Nil) =>
              Elems(arrays', Deref(slices'.snapshot))
                  = Elems(arrays, Deref(slices.snapshot))]_vars

C13_Witness ==
    /\ ret.op = "SetItems"
    /\ ret.v = Nil
    /\ ret.i = 2
    /\ Elems(arrays, Deref(slices.snapshot))[2] = Nil
    /\ Elems(arrays, slices.items) = Pointers([i \in 1..2 |-> ItemAt(i)])
    /\ podcast.items = history.added

\* C14: an item written at position i of the slice GetItemsSlice returned
\* is the item the Podcast holds at position i, also when items were
\* appended to the Podcast after the slice was returned.
C14_ItemsSliceStaysLive ==
    ret.op = "SetItemsSlice" =>
        /\ ret.i <= GetItemCount(slices.items)
        /\ Elems(arrays, slices.items)[ret.i] = ret.v

\* the text lexemes of the element opened at lexeme i of a document
IsChr(l) == l.k = "chr"

TextOf(doc, i) ==
    SelectSeq(SubSeq(doc, i + 1,
                     CHOOSE j \in (i + 1)..Len(doc) :
                         /\ doc[j].k = "close"
                         /\ \A h \in (i + 1)..(j - 1) : doc[h].k # "close"),
              IsChr)

\* the texts of the guid elements of a document, in document order
GuidOpens(doc) ==
    {i \in 1..Len(doc) : doc[i].k = "open" /\ doc[i].s = "guid"}

KthOf(S, k) == CHOOSE i \in S : Cardinality({j \in S : j < i}) = k - 1

GuidsIn(doc, opens) ==
    [k \in 1..Cardinality(opens) |-> TextOf(doc, KthOf(opens, k))]

Guids(doc) == GuidsIn(doc, GuidOpens(doc))

\* the guid texts of a sequence of items as the Encoder writes them
GuidsOf(items) == [k \in 1..Len(items) |-> EscapeText(items[k].GUID)]

\* C15: Write, WriteWithOptions and StreamWrite of a Feed emit one item
\* element for each item the Podcast held when Podcast.Feed was called, in
\* the order of the appends, whatever was appended to the Podcast since.
C15_FeedWritesTheItemsItWasBuiltWith ==
    (ret.op \in {"Write", "WriteWithOptions", "StreamWrite"}
     /\ ret.err = NoErr) =>
        /\ Cardinality(ItemPositions(Outline(Delivered(ret))))
               = Len(history.built)
        /\ Guids(Delivered(ret)) = GuidsOf(history.built)
        /\ IsPrefix(history.built, history.added)

C15_Witness ==
    /\ ret.op = "StreamWrite"
    /\ ret.err = NoErr
    /\ Len(history.built) = 1
    /\ Len(history.added) = 2
    /\ Deref(slices.feed).arr = slices.items.arr
    /\ Guids(Delivered(ret)) = GuidsOf(<<ItemAt(1)>>)

(***************************************************************************)
(* Properties of the sinks and of the buffer pool.                         *)
(***************************************************************************)
\* C16: when the k-th write call on the sink fails, Write, WriteWithOptions
\* and StreamWrite return the sink's error and make no write call after the
\* k-th; XML and XMLWithOptions return the empty string with every error.
C16_WriteFailureStopsAndIsReturned ==
    /\ (ret.op \in {"Write", "WriteWithOptions", "StreamWrite"}
        /\ ret.failAt >= 1 /\ ret.calls >= ret.failAt) =>
           /\ ret.err = ErrWrite
           /\ ret.calls = ret.failAt
           /\ Len(ret.sink) = ret.failAt - 1
    /\ (ret.op \in {"XML", "XMLWithOptions"} /\ ret.err # NoErr) =>
           ret.str = <<>>

C16_Witness ==
    /\ ret.op = "StreamWrite"
    /\ ret.failAt = StreamWrite(Deref(feed), 0).calls
    /\ ret.failAt > 20
    /\ ret.err = ErrWrite
    /\ ret.calls = ret.failAt

\* C17: Write and WriteWithOptions, whatever the options, hand the document
\* to the sink in one write call: a call that succeeds has made exactly one
\* write, the whole document, and a call that fails has left nothing in
\* the sink.
C17_WholeDocumentInOneWrite ==
    ret.op \in {"Write", "WriteWithOptions"} =>
        /\ ret.err = NoErr =>
               /\ ret.calls = 1
               /\ ret.sink = <<XML(Deref(feed)).str>>
        /\ ret.err # NoErr => Flat(ret.sink, 1) = <<>>

\* C18: every buffer resting in the buffer pool is empty.
C18_PooledBuffersAreEmpty == \A b \in pool : b = <<>>

\* C20: every strategy fails on a Feed without Channel: it returns an
\* error, does not panic, and leaves no document in the sink or string.
C20_NilChannelIsAnError ==
    (ret.op \in {"Write", "XML", "WriteWithOptions", "XMLWithOptions",
                 "StreamWrite"}
     /\ Deref(feed).Channel = Nil) =>
        /\ ret.err \notin {NoErr, Panic}
        /\ Delivered(ret) = <<>>

\* the buffers a thread holds
Held(t) == {threads[t].outer, threads[t].inner} \ {0}

\* C19: with calls of WriteWithOptions and XMLWithOptions under UsePool
\* interleaved, no buffer is held by two calls, or twice by one, or held
\* while it rests in the pool, and every call returns what the same call
\* returns run alone without the pool.
C19_PooledCallsDoNotShareBuffers ==
    /\ \A t \in DOMAIN threads : \A u \in DOMAIN threads :
           t # u => Held(t) \cap Held(u) = {}
    /\ \A t \in DOMAIN threads :
           /\ threads[t].outer # 0 => threads[t].outer # threads[t].inner
           /\ Held(t) \cap buffers.resting = {}
    /\ \A t \in DOMAIN threads :
           threads[t].pc = "done" =>
               /\ threads[t].err = NoErr
               /\ threads[t].op = "WriteWithOptions" =>
                      Flat(threads[t].sink, 1)
                          = Flat(WriteWithOptions(Deref(threads[t].feed),
                                                  WriteOptions(0, FALSE), 0,
                                                  <<>>).sink, 1)
               /\ threads[t].op = "XMLWithOptions" =>
                      threads[t].str
                          = XMLWithOptions(Deref(threads[t].feed),
                                           WriteOptions(0, FALSE), <<>>,
                                           <<>>).str

C19_Witness ==
    /\ threads[1].pc = "done"
    /\ threads[1].op = "XMLWithOptions"
    /\ threads[1].str = XML(Deref(threads[1].feed)).str
    /\ threads[2].pc = "writeTo"
    /\ threads[2].op = "XMLWithOptions"
    /\ threads[2].feed # threads[1].feed
    /\ threads[2].calls = 1
    /\ Held(2) \cap {1, 2} # {}

(***************************************************************************)
(* Properties of the documents.                                            *)
(***************************************************************************)
Strategies ==
    {"Write", "XML", "WriteWithOptions", "XMLWithOptions", "StreamWrite"}

\* the fields of a Channel that hold one value, with their elements, in the
\* order of the struct
ChannelValueFields ==
    <<"Title", "Link", "Copyright", "Language", "Description", "Author",
      "Block", "Explicit", "Complete", "NewFeedURL", "Subtitle", "Summary",
      "Owner", "Image">>

ChannelValueNames ==
    <<"title", "link", "copyright", "language", "description",
      "itunes:author", "itunes:block", "itunes:explicit", "itunes:complete",
      "itunes:new-feed-url", "itunes:subtitle", "itunes:summary",
      "itunes:owner", "itunes:image">>

\* the order of the channel's children in the order of the struct
FieldOrder == ChannelValueNames \o <<"item", "itunes:category">>

\* the elements of an outline named n
Named(o, n) == {i \in 1..Len(o) : o[i].n = n}

\* C21: in every strategy a channel or item field that is empty (an empty
\* string, a nil pointer, a zero order) has no element in the output, the
\* elements of the fields that are set keep their order, and the document
\* has exactly one channel element, inside the rss root.
C21_EmptyFieldsHaveNoElement ==
    (ret.op \in Strategies /\ ret.err = NoErr) =>
        LET o == Outline(Delivered(ret))
            c == Deref(Deref(feed).Channel)
        IN  /\ \A j \in 1..Len(ChannelValueFields) :
                   ~IsSet(c, ChannelValueFields[j])
                       => ChannelValueNames[j]
                              \notin Range(ChannelChildren(Delivered(ret)))
            /\ \A k \in 1..Len(c.Items) :
                   /\ \A j \in 1..Len(ItemFields) :
                          ~IsSet(c.Items[k], ItemFields[j])
                              => ItemOrder[j]
                                     \notin Range(ItemChildren(o,
                                                      KthItem(o, k)))
                   /\ FollowsOrder(ItemChildren(o, KthItem(o, k)), ItemOrder)
            /\ FollowsOrderRepeating(
                   ChannelChildren(Delivered(ret)),
                   IF ret.op = "StreamWrite" THEN CategoriesThenItemsOrder
                   ELSE FieldOrder)
            /\ o[1] = [d |-> 0, n |-> "rss"]
            /\ Named(o, "rss") = {1}
            /\ Named(o, "channel") = {2}
            /\ o[2].d = 1

\* the characters of markup
Special == {"<", ">", "&", "\"", "'"}

\* the text of lexemes lo..hi of a document: the atoms written outside CDATA
\* sections, the atoms written inside them, and whether a section is open
\* after hi, inside telling whether one is open before lo
RECURSIVE TextIn(_, _, _, _)
TextIn(doc, lo, hi, inside) ==
    IF lo > hi THEN [plain |-> <<>>, cdata |-> <<>>, inside |-> inside]
    ELSE IF lo = hi
      THEN [plain |-> IF doc[lo].k = "chr" /\ ~inside THEN <<doc[lo].s>>
                      ELSE <<>>,
            cdata |-> IF doc[lo].k = "chr" /\ inside THEN <<doc[lo].s>>
                      ELSE <<>>,
            inside |-> CASE doc[lo].k = "cdata" -> TRUE
                         [] doc[lo].k = "cdend" -> FALSE
                         [] OTHER -> inside]
    ELSE LET l == TextIn(doc, lo, (lo + hi) \div 2, inside)
             r == TextIn(doc, (lo + hi) \div 2 + 1, hi, l.inside)
         IN  [plain |-> l.plain \o r.plain, cdata |-> l.cdata \o r.cdata,
              inside |-> r.inside]

\* the characters of a text, a "]]>" being the two bracket characters and
\* the angle
RECURSIVE Characters(_, _)
Characters(v, i) ==
    IF i > Len(v) THEN <<>>
    ELSE (IF v[i] = "]]>" THEN <<"]]", ">">> ELSE <<v[i]>>)
         \o Characters(v, i + 1)

ValueOf(p) == IF p = Nil THEN <<>> ELSE Deref(p).Value

\* the CDATAText values of the items from item i on, in document order
RECURSIVE ItemCDATA(_, _)
ItemCDATA(items, i) ==
    IF i > Len(items) THEN <<>>
    ELSE ValueOf(items[i].Description) \o ValueOf(items[i].ContentEncoded)
         \o ValueOf(items[i].Summary) \o ItemCDATA(items, i + 1)

\* C22: in every strategy no <, >, &, " or ' of a plain-text value is
\* written as it is in element text or in an attribute value, each being
\* replaced by an entity reference, and the CDATAText values are written
\* character for character inside CDATA sections.
C22_PlainTextEscapedCDATAVerbatim ==
    (ret.op \in Strategies /\ ret.err = NoErr
        /\ Deref(feed).Channel # Nil) =>
        LET t == TextIn(Delivered(ret), 1, Len(Delivered(ret)), FALSE)
            c == Deref(Deref(feed).Channel)
        IN  /\ Range(t.plain) \cap Special = {}
            /\ t.cdata = Characters(ValueOf(c.Summary)
                                    \o ItemCDATA(c.Items, 1), 1)

\* the rss start tag with the attributes Podcast.Feed stamps
RootTag ==
    <<Lex("open", "rss"), Lex("attr", "xmlns:itunes")>>
    \o RawText(<<"http://www.itunes.com/dtds/podcast-1.0.dtd">>)
    \o <<Lex("quote", "\""), Lex("attr", "xmlns:content")>>
    \o RawText(<<"http://purl.org/rss/1.0/modules/content/">>)
    \o <<Lex("quote", "\""), Lex("attr", "version"), Lex("chr", "2.0"),
         Lex("quote", "\""), Lex("gt", ">")>>

\* the places of a lexeme in a document
Places(doc, l) == {i \in 1..Len(doc) : doc[i] = l}

SameCall ==
    /\ ret.op \in Strategies
    /\ ret'.op = ret.op
    /\ ret.op \in {"WriteWithOptions", "XMLWithOptions"}
           => ret'.opts = ret.opts
    /\ ret.op \in {"Write", "WriteWithOptions", "StreamWrite"}
           => ret'.failAt = ret.failAt

\* C24: a serialization call leaves the Feed, its Channel and its items as
\* they were, and a call made twice in a row on the Feed, with the same
\* strategy and options, returns the same error and yields the same bytes
\* both times, whatever the pooled buffers held.
C24_SerializationIsRepeatable ==
    [][ret'.op \in Strategies =>
           /\ feed' = feed
           /\ podcast' = podcast
           /\ SameCall => /\ ret'.err = ret.err
                          /\ Delivered(ret') = Delivered(ret)]_vars

C24_Witness ==
    /\ ret.op = "XMLWithOptions"
    /\ ret.opts.UsePool
    /\ ret.err = NoErr
    /\ ret.str # <<>>
    /\ ret.got = ret.str
    /\ Len(Deref(Deref(feed).Channel).Items) = MaxItems

DigitAtoms == {"0", "1", "2", "3", "4", "5", "6", "7", "8", "9"}

\* the text of the one element a document consists of, <<>> being the
\* answer for a document that is not one element around text
ElementText(doc, name) ==
    IF /\ Len(doc) >= 3
       /\ doc[1] = Lex("open", name)
       /\ doc[2] = Lex("gt", ">")
       /\ doc[Len(doc)] = Lex("close", name)
       /\ \A i \in 3..(Len(doc) - 1) : doc[i].k = "chr"
    THEN [i \in 1..(Len(doc) - 3) |-> doc[i + 2].s]
    ELSE <<>>

\* a text of the shape "Ddd, DD Mon YYYY HH:MM:SS +ZZZZ"
IsRFC2822(x) ==
    /\ Len(x) = 27
    /\ x[1] \in Range(shortDayNames)
    /\ x[7] \in Range(shortMonthNames)
    /\ <<x[2], x[3], x[6], x[8], x[13], x[16], x[19], x[22]>>
           = <<",", " ", " ", " ", " ", ":", ":", " ">>
    /\ \A i \in {4, 5, 9, 10, 11, 12, 14, 15, 17, 18, 20, 21, 24, 25, 26, 27} :
           x[i] \in DigitAtoms
    /\ x[23] \in {"+", "-"}

\* C25: for every instant, in UTC or in another zone, the zero time
\* included, PubDate.MarshalXML returns no error and writes one element
\* whose text has the shape "Ddd, DD Mon YYYY HH:MM:SS +ZZZZ", the sign and
\* the four digits being the hours and minutes of the offset of the
\* instant's zone; 2015-01-01 00:00:00 UTC gives
\* "Thu, 01 Jan 2015 00:00:00 +0000".
C25_PubDateIsFixedWidthRFC2822 ==
    ret.op = "PubDate.MarshalXML" =>
        LET x == ElementText(ret.out, "pubDate")
        IN  /\ ret.err = NoErr
            /\ IsRFC2822(x)
            /\ x[23] = (IF ret.t.offset < 0 THEN "-" ELSE "+")
            /\ SubSeq(x, 24, 27)
                   = <<Digit(Abs(ret.t.offset) \div 36000),
                       Digit((Abs(ret.t.offset) \div 3600) % 10),
                       Digit(((Abs(ret.t.offset) \div 60) % 60) \div 10),
                       Digit((Abs(ret.t.offset) \div 60) % 10)>>
            /\ ret.t = Instant(16436, 0, 0) =>
                   x = <<"Thu", ",", " ", "0", "1", " ", "Jan", " ", "2",
                         "0", "1", "5", " ", "0", "0", ":", "0", "0", ":",
                         "0", "0", " ", "+", "0", "0", "0", "0">>

(***************************************************************************)
(* Properties of StreamWrite's writes.                                     *)
(***************************************************************************)
\* the number of Encode calls StreamWrite makes for the metadata of c: one
\* for every field that is set and one for every category
MetadataWrites(c) ==
    Cardinality({j \in 1..Len(ChannelValueFields) :
                    IsSet(c, ChannelValueFields[j])})
    + Len(c.Categories)

\* the number of the write that carries item k, after the nine writes of
\* the opening tags and the writes of the metadata
ItemWrite(c, k) == 9 + MetadataWrites(c) + k

IsTop(e) == e.d = 0

\* the names of the outermost elements of a write
TopNames(w) == Names(SelectSeq(Outline(w), IsTop))

\* C26: StreamWrite hands the sink, in this order, the declaration and the
\* opening tags, one write for each metadata element of the channel, one
\* write for each item in the order of the items, item k whole before
\* anything of item k + 1, and then the closing tags; the closing tags are
\* written only after every item was written, and a call returns no error
\* exactly when all of these writes were taken.
C26_StreamWriteDeliversInOrder ==
    (ret.op = "StreamWrite" /\ Deref(feed).Channel # Nil) =>
        LET c == Deref(Deref(feed).Channel)
            s == ret.sink
            last == ItemWrite(Deref(Deref(feed).Channel),
                              Len(Deref(Deref(feed).Channel).Items)) + 1
        IN  /\ Len(s) <= last
            /\ (ret.err = NoErr) <=> (Len(s) = last)
            /\ IsPrefix(
                   SelectSeq(
                       Flat(SubSeq(s, 1, IF Len(s) < 9 THEN Len(s) ELSE 9),
                            1),
                       IsMarkup),
                   <<xmlHeader[1]>> \o RootTag
                   \o <<Lex("open", "channel"), Lex("gt", ">")>>)
            /\ \A j \in 10..ItemWrite(c, 0) :
                   j <= Len(s) =>
                       /\ Len(TopNames(s[j])) = 1
                       /\ TopNames(s[j])[1] \in Range(ChannelValueNames)
                                                   \cup {"itunes:category"}
            /\ \A k \in 1..Len(c.Items) :
                   ItemWrite(c, k) <= Len(s) =>
                       /\ TopNames(s[ItemWrite(c, k)]) = <<"item">>
                       /\ Guids(s[ItemWrite(c, k)]) = GuidsOf(<<c.Items[k]>>)
            /\ Len(s) = last =>
                   SelectSeq(s[last], IsMarkup)
                       = <<Lex("close", "channel"), Lex("close", "rss")>>
            /\ \A j \in 1..Len(s) :
                   Lex("close", "rss") \in Range(s[j]) => j = last

C26_Witness ==
    /\ ret.op = "StreamWrite"
    /\ ret.err = ErrWrite
    /\ Deref(feed).Channel # Nil
    /\ Len(Deref(Deref(feed).Channel).Items) = 2
    /\ ret.failAt = ItemWrite(Deref(Deref(feed).Channel), 2)
    /\ Len(ret.sink) = ItemWrite(Deref(Deref(feed).Channel), 1)
    /\ TopNames(ret.sink[Len(ret.sink)]) = <<"item">>
    /\ Guids(Flat(ret.sink, 1))
           = GuidsOf(<<Deref(Deref(feed).Channel).Items[1]>>)

\* C27: when StreamWrite returns the error of the sink, the sink holds the
\* writes made before the one that failed and nothing else: what it holds
\* is a prefix, write for write and byte for byte, of what StreamWrite
\* hands for the same Feed to a sink that takes every write.
C27_FailedStreamLeavesAPrefix ==
    (ret.op = "StreamWrite" /\ ret.err = ErrWrite) =>
        /\ Len(ret.sink) = ret.failAt - 1
        /\ IsPrefix(ret.sink, StreamWrite(Deref(feed), 0).sink)
        /\ IsPrefix(Flat(ret.sink, 1),
                    Flat(StreamWrite(Deref(feed), 0).sink, 1))

C27_Witness ==
    /\ ret.op = "StreamWrite"
    /\ ret.err = ErrWrite
    /\ Deref(feed).Channel # Nil
    /\ Len(Deref(Deref(feed).Channel).Items) = 2
    /\ ret.failAt = ItemWrite(Deref(Deref(feed).Channel), 1)
    /\ Len(ret.sink) = ret.failAt - 1
    /\ Guids(Flat(ret.sink, 1)) = <<>>
    /\ Len(Flat(ret.sink, 1)) < Len(Flat(StreamWrite(Deref(feed), 0).sink, 1))

(***************************************************************************)
(* Properties of the text of a duration.                                   *)
(***************************************************************************)
Colons(x) == {i \in 1..Len(x) : x[i] = ":"}

\* two digits that read 00..59
IsSixtieth(a, b) == a \in {"0", "1", "2", "3", "4", "5"} /\ b \in DigitAtoms

\* C28: for every duration, the negative ones included, formatDuration
\* returns a text of decimal digits and one or two colons, without a minus
\* sign, that ends in a seconds part of two digits reading 00..59 and has a
\* minutes part below 60; a negative duration is floored to zero and gives
\* "0:00".
C28_DurationTextIsDigitsAndColons ==
    ret.op = "formatDuration" =>
        LET x == ret.out
            n == Len(ret.out)
        IN  /\ Range(x) \subseteq DigitAtoms \cup {":"}
            /\ Cardinality(Colons(x)) \in {1, 2}
            /\ n >= 4
            /\ x[n - 2] = ":"
            /\ IsSixtieth(x[n - 1], x[n])
            /\ Cardinality(Colons(x)) = 2 =>
                   /\ n >= 7
                   /\ x[n - 5] = ":"
                   /\ IsSixtieth(x[n - 4], x[n - 3])
            /\ Cardinality(Colons(x)) = 1 =>
                   \/ n = 4
                   \/ n = 5 /\ IsSixtieth(x[1], x[2])
            /\ (ret.d.sec < 0 \/ ret.d.nsec < 0) =>
                   x = <<"0", ":", "0", "0">>

\* C29: every pooled call puts back each buffer it took exactly once before
\* it returns, whether its sink took the document or failed: a call holds
\* exactly the buffers it took and has not put back, a held buffer never
\* rests in the pool, a returned call took one buffer (WriteWithOptions) or
\* two (XMLWithOptions) and put as many back, and with every call returned
\* every buffer rests in the pool.
C29_BuffersPutBackExactlyOnce ==
    /\ \A t \in DOMAIN threads :
           /\ Cardinality(Held(t)) = threads[t].gets - threads[t].puts
           /\ Held(t) \cap buffers.resting = {}
           /\ threads[t].pc = "done" =>
                  /\ Held(t) = {}
                  /\ threads[t].gets
                         = (IF threads[t].op = "XMLWithOptions" THEN 2 ELSE 1)
                  /\ threads[t].puts = threads[t].gets
    /\ (\A t \in DOMAIN threads : threads[t].pc \in {"idle", "done"}) =>
           buffers.resting = 1..Len(buffers.data)

C29_Witness ==
    /\ threads[1].pc = "done"
    /\ threads[1].op = "WriteWithOptions"
    /\ threads[1].err = ErrWrite
    /\ threads[1].puts = 1
    /\ threads[2].pc = "done"
    /\ threads[2].op = "XMLWithOptions"
    /\ threads[2].err = NoErr
    /\ threads[2].puts = 2
    /\ Len(buffers.data) >= 2
    /\ buffers.resting = 1..Len(buffers.data)

\* the fields Podcast.Feed copies, as the Channel c holds those of p
CopiedFrom(c, p) ==
    /\ c.Title = p.Title
    /\ c.Description = p.Description
    /\ c.Link = p.Link
    /\ c.Language = p.Language
    /\ c.Copyright = p.Copyright

====
